---- MODULE Spec2Model ----
(***************************************************************************)
(* Model of the export subsystem of the property-search application        *)
(* (src/utils/export_utils.py): export_to_json, export_to_csv,             *)
(* export_to_excel, export_to_pdf_report and get_export_summary, applied   *)
(* to loosely typed Python values.                                         *)
(*                                                                         *)
(* Python values are tagged records; a dict keeps its insertion order as   *)
(* a pair of sequences (keys, values).  An exception is an outcome record  *)
(* with ok = FALSE and the exception's message.                            *)
(***************************************************************************)
EXTENDS Integers, Sequences, FiniteSets, TLC

(* ------------------------------ bounds --------------------------------- *)
\* longest list / largest dict of the JSON input universe
MaxLen == 2
\* longest record list handed to the tabular, workbook and report exporters
MaxRecords == 2
\* last clock second of a run
MaxClock == 1
\* length of the longest report
MaxSections == 5
\* largest id the datastore gives a search in a run
MaxSearchId == 3
\* calls a session makes in a run of concurrent sessions
MaxCalls == 2

(* --------------------------- Python values ----------------------------- *)
Str(s) == [t |-> "str", s |-> s]
Num(n) == [t |-> "num", n |-> n]
Bool(b) == [t |-> "bool", b |-> b]
None == [t |-> "none"]
List(xs) == [t |-> "list", items |-> xs]
Dict(ks, vs) == [t |-> "dict", ks |-> ks, vs |-> vs]
\* a value of a type json does not know, e.g. datetime; r is its str()
Obj(r) == [t |-> "obj", repr |-> r]

Ok(v) == [ok |-> TRUE, val |-> v]
Raise(m) == [ok |-> FALSE, msg |-> m]

\* bool(v)
Truthy(v) ==
  CASE v.t = "str" -> v.s # ""
    [] v.t = "num" -> v.n # 0
    [] v.t = "bool" -> v.b
    [] v.t = "none" -> FALSE
    [] v.t = "list" -> v.items # <<>>
    [] v.t = "dict" -> v.ks # <<>>
    [] OTHER -> TRUE

\* type(v).__name__
TypeName(v) ==
  CASE v.t = "str" -> "str"
    [] v.t = "num" -> "int"
    [] v.t = "bool" -> "bool"
    [] v.t = "none" -> "NoneType"
    [] v.t = "list" -> "list"
    [] v.t = "dict" -> "dict"
    [] OTHER -> "datetime"

\* s.join(parts) for a sequence of TLA+ strings
RECURSIVE JoinStr(_, _)
JoinStr(parts, sep) ==
  IF parts = <<>> THEN ""
  ELSE IF Len(parts) = 1 THEN parts[1]
  ELSE parts[1] \o sep \o JoinStr(Tail(parts), sep)

\* str(v) and repr(v)
RECURSIVE PyStr(_)
RECURSIVE PyRepr(_)
PyStr(v) ==
  CASE v.t = "str" -> v.s
    [] v.t = "num" -> ToString(v.n)
    [] v.t = "bool" -> IF v.b THEN "True" ELSE "False"
    [] v.t = "none" -> "None"
    [] v.t = "list" ->
         "[" \o JoinStr([i \in 1..Len(v.items) |-> PyRepr(v.items[i])], ", ") \o "]"
    [] v.t = "dict" ->
         "{" \o JoinStr([i \in 1..Len(v.ks) |->
                          PyRepr(v.ks[i]) \o ": " \o PyRepr(v.vs[i])], ", ") \o "}"
    [] OTHER -> v.repr
PyRepr(v) == IF v.t = "str" THEN "'" \o v.s \o "'" ELSE PyStr(v)

\* k in d, for a dict d and a str key k
DictHas(d, k) == \E i \in 1..Len(d.ks) : d.ks[i] = Str(k)
\* d[k] for a key that is present
DictItem(d, k) == d.vs[CHOOSE i \in 1..Len(d.ks) : d.ks[i] = Str(k)]
\* d.get(k, default)
DictGet(d, k, default) == IF DictHas(d, k) THEN DictItem(d, k) ELSE default

\* needle in haystack, for two str
Substring(needle, hay) ==
  \E i \in 1..(Len(hay) - Len(needle) + 1) :
     SubSeq(hay, i, i + Len(needle) - 1) = needle

\* `k in v` for a str k: membership test of dict, str and list; TypeError else
PyIn(k, v) ==
  CASE v.t = "dict" -> Ok(DictHas(v, k))
    [] v.t = "str" -> Ok(k = "" \/ Substring(k, v.s))
    [] v.t = "list" -> Ok(\E i \in 1..Len(v.items) : v.items[i] = Str(k))
    [] OTHER -> Raise("argument of type '" \o TypeName(v) \o "' is not iterable")

\* v[k] for a str k such that `k in v` was true
PyItem(v, k) ==
  CASE v.t = "dict" -> Ok(DictItem(v, k))
    [] v.t = "str" -> Raise("string indices must be integers, not 'str'")
    [] OTHER -> Raise("list indices must be integers or slices, not str")

\* v.get: only a dict has it
PyGet(v, k, default) ==
  IF v.t = "dict" THEN Ok(DictGet(v, k, default))
  ELSE Raise("'" \o TypeName(v) \o "' object has no attribute 'get'")

(* ------------------------------- clock --------------------------------- *)
Pad2(n) == IF n < 10 THEN "0" \o ToString(n) ELSE ToString(n)
\* datetime.now().strftime('%Y%m%d_%H%M%S'), the clock counting seconds
Timestamp(clock) == "20240101_0000" \o Pad2(clock)
\* datetime.now().strftime("%Y-%m-%d %H:%M:%S")
ExportDate(clock) == "2024-01-01 00:00:" \o Pad2(clock)

\* f"{prefix}_{'export' if search_id is None else search_id}_{timestamp}.{ext}"
FilenameNoneOnly(prefix, search_id, clock, ext) ==
  prefix \o "_" \o (IF search_id # None THEN PyStr(search_id) ELSE "export")
         \o "_" \o Timestamp(clock) \o "." \o ext

\* f"{prefix}_{search_id or 'export'}_{timestamp}.{ext}"
Filename(prefix, search_id, clock, ext) ==
  prefix \o "_" \o (IF Truthy(search_id) THEN PyStr(search_id) ELSE "export")
         \o "_" \o Timestamp(clock) \o "." \o ext

(* ----------------- json.dumps(x, indent=2, default=str) ----------------- *)
\* The payload is the text's sequence of JSON tokens (the indentation and
\* line breaks between tokens carry no data).
TPunct(c) == [p |-> c]
TString(s) == [str |-> s]
TNumber(n) == [num |-> n]
TLit(w) == [lit |-> w]

\* a dict key as json writes it: str kept, int/bool/None coerced to text,
\* anything else is a TypeError (default= is never applied to keys)
JsonKey(k) ==
  CASE k.t = "str" -> Ok(k.s)
    [] k.t = "num" -> Ok(ToString(k.n))
    [] k.t = "bool" -> Ok(IF k.b THEN "true" ELSE "false")
    [] k.t = "none" -> Ok("null")
    [] OTHER -> Raise("keys must be str, int, float, bool or None, not "
                      \o TypeName(k))

\* json.dumps without default=: a value it cannot represent is a TypeError
JsonDefaultMissing(v) ==
  Raise("Object of type " \o TypeName(v) \o " is not JSON serializable")

\* default=str: the fallback applied to a value json cannot represent
JsonDefault(v) == Ok(Str(PyStr(v)))

\* every scalar written through str(), as a JSON string
JsonScalarAsText(v) == TString(PyStr(v))

\* the token of a str, int, bool or None
JsonScalar(v) ==
  CASE v.t = "str" -> TString(v.s)
    [] v.t = "num" -> TNumber(v.n)
    [] v.t = "bool" -> TLit(IF v.b THEN "true" ELSE "false")
    [] OTHER -> TLit("null")

\* first failure of a sequence of outcomes, else the concatenation of the
\* token sequences with sep between them
RECURSIVE JoinTokens(_, _)
JoinTokens(outs, sep) ==
  IF outs = <<>> THEN Ok(<<>>)
  ELSE IF ~outs[1].ok THEN outs[1]
  ELSE LET rest == JoinTokens(Tail(outs), sep)
       IN IF ~rest.ok THEN rest
          ELSE IF Len(outs) = 1 THEN outs[1]
          ELSE Ok(outs[1].val \o sep \o rest.val)

RECURSIVE JsonDumps(_)
JsonDumps(v) ==
  CASE v.t \in {"str", "num", "bool", "none"} -> Ok(<<JsonScalar(v)>>)
    [] v.t = "list" ->
         LET body == JoinTokens([i \in 1..Len(v.items) |-> JsonDumps(v.items[i])],
                                <<TPunct(",")>>)
         IN IF body.ok THEN Ok(<<TPunct("[")>> \o body.val \o <<TPunct("]")>>)
            ELSE body
    [] v.t = "dict" ->
         LET pair(i) ==
               LET k == JsonKey(v.ks[i])
                   x == JsonDumps(v.vs[i])
               IN IF ~k.ok THEN k
                  ELSE IF ~x.ok THEN x
                  ELSE Ok(<<TString(k.val), TPunct(":")>> \o x.val)
             body == JoinTokens([i \in 1..Len(v.ks) |-> pair(i)], <<TPunct(",")>>)
         IN IF body.ok THEN Ok(<<TPunct("{")>> \o body.val \o <<TPunct("}")>>)
            ELSE body
    [] OTHER ->
         LET fallback == JsonDefault(v)
         IN IF fallback.ok THEN JsonDumps(fallback.val) ELSE fallback

\* what a call leaves behind: the returned (payload, filename) or the
\* exception that left the function
Returned(fn, payload, filename) ==
  [fn |-> fn, status |-> "returned", payload |-> payload, filename |-> filename]
Raised(fn, message) == [fn |-> fn, status |-> "raised", message |-> message]

export_to_json(data, id, clock) ==
  LET json_string == JsonDumps(data)
  IN IF json_string.ok
     THEN Returned("export_to_json", json_string.val,
                   Filename("property_search", id, clock, "json"))
     ELSE Raised("export_to_json", "JSON export failed: " \o json_string.msg)


(* ------------------- pandas.DataFrame and DataFrame.to_csv -------------- *)
\* A row is the dict the exporter builds: column names and cell values, in
\* insertion order.
Row(cols, cells) == [cols |-> cols, cells |-> cells]
RowAppend(row, col, cell) == Row(Append(row.cols, col), Append(row.cells, cell))

\* the cell pandas holds where a row has no such key
NaN == [t |-> "nan"]

InSeq(x, seq) == \E i \in 1..Len(seq) : seq[i] = x

\* pd.DataFrame(list of dicts).columns: the union of the rows' keys in order
\* of first appearance
RECURSIVE DataFrameColumns(_)
DataFrameColumns(rows) ==
  IF rows = <<>> THEN <<>>
  ELSE LET before == DataFrameColumns(SubSeq(rows, 1, Len(rows) - 1))
           last == rows[Len(rows)]
       IN before \o SelectSeq(last.cols, LAMBDA c : ~InSeq(c, before))

\* df.at[row, col]
CellAt(row, col) ==
  IF InSeq(col, row.cols)
  THEN row.cells[CHOOSE i \in 1..Len(row.cols) : row.cols[i] = col]
  ELSE NaN

IsNA(v) == v.t \in {"nan", "none"}

\* dtype pandas infers for a column: int64 when every cell is an int,
\* float64 when ints are mixed with missing cells, object otherwise
Dtype(rows, col) ==
  LET cells == [i \in 1..Len(rows) |-> CellAt(rows[i], col)]
      idx == 1..Len(rows)
  IN IF \A i \in idx : cells[i].t = "num" THEN "int64"
     ELSE IF /\ \A i \in idx : cells[i].t = "num" \/ IsNA(cells[i])
             /\ \E i \in idx : cells[i].t = "num"
          THEN "float64"
          ELSE "object"

\* the text to_csv writes for one cell (na_rep = ''); the payload is kept as
\* parsed cells, so the quoting of commas is not part of it
CsvCell(v, dtype) ==
  IF IsNA(v) THEN ""
  ELSE IF dtype = "float64" THEN ToString(v.n) \o ".0"
  ELSE PyStr(v)

\* to_csv after df.drop_duplicates(): a repeated row is written once
ToCsvDropDuplicates(rows) ==
  LET columns == DataFrameColumns(rows)
      kept == SelectSeq([i \in 1..Len(rows) |-> i],
                        LAMBDA i : \A j \in 1..(i - 1) : rows[j] # rows[i])
      line(i) == [c \in 1..Len(columns) |->
                    CsvCell(CellAt(rows[i], columns[c]), Dtype(rows, columns[c]))]
  IN <<columns>> \o [k \in 1..Len(kept) |-> line(kept[k])]

\* df.to_csv(index=False): the header row, then one row per dict
ToCsv(rows) ==
  LET columns == DataFrameColumns(rows)
      line(i) == [c \in 1..Len(columns) |->
                    CsvCell(CellAt(rows[i], columns[c]), Dtype(rows, columns[c]))]
  IN <<columns>> \o [i \in 1..Len(rows) |-> line(i)]

(* ---------------------------- export_to_csv ---------------------------- *)
\* column name, record key: the scalar columns of a row, in the order
\* the row dict is built
CsvFields ==
  << <<"Address", "formattedAddress">>, <<"City", "city">>,
     <<"State", "state">>, <<"ZIP Code", "zipCode">>,
     <<"Property Type", "propertyType">>, <<"Bedrooms", "bedrooms">>,
     <<"Bathrooms", "bathrooms">>, <<"Square Footage", "squareFootage">>,
     <<"Lot Size", "lotSize">>, <<"Year Built", "yearBuilt">>,
     <<"Last Sale Price", "lastSalePrice">>,
     <<"Last Sale Date", "lastSaleDate">>,
     <<"Owner Occupied", "ownerOccupied">>,
     <<"Assessor ID", "assessorID">>, <<"County", "county">>,
     <<"Zoning", "zoning">> >>

\* "Yes" if d.get(key) else "No"
YesNo(d, key) == Str(IF Truthy(DictGet(d, key, None)) THEN "Yes" ELSE "No")

\* the row literal: prop.get(key, "N/A") per column, Yes/No for the flag;
\* prop.get raises on anything that is not a dict
ScalarRow(prop, fields) ==
  IF prop.t # "dict" THEN PyGet(prop, "formattedAddress", Str("N/A"))
  ELSE Ok(Row([i \in 1..Len(fields) |-> fields[i][1]],
              [i \in 1..Len(fields) |->
                 IF fields[i][1] = "Owner Occupied"
                 THEN YesNo(prop, fields[i][2])
                 ELSE DictGet(prop, fields[i][2], Str("N/A"))]))

\* the characters of a str
Chars(s) == [i \in 1..Len(s) |-> SubSeq(s, i, i)]

\* ",".join(names)
JoinNamesNoSpace(names) ==
  LET parts ==
        CASE names.t = "list" -> names.items
          [] names.t = "dict" -> names.ks
          [] names.t = "str" -> [i \in 1..Len(names.s) |-> Str(Chars(names.s)[i])]
          [] OTHER -> <<>>
  IN IF names.t \notin {"list", "dict", "str"}
     THEN Raise("can only join an iterable")
     ELSE IF \E i \in 1..Len(parts) : parts[i].t # "str"
     THEN Raise("sequence item: expected str instance")
     ELSE Ok(Str(JoinStr([i \in 1..Len(parts) |-> parts[i].s], ",")))

\* ", ".join(names)
JoinNames(names) ==
  LET parts ==
        CASE names.t = "list" -> names.items
          [] names.t = "dict" -> names.ks
          [] names.t = "str" -> [i \in 1..Len(names.s) |-> Str(Chars(names.s)[i])]
          [] OTHER -> <<>>
  IN IF names.t \notin {"list", "dict", "str"}
     THEN Raise("can only join an iterable")
     ELSE IF \E i \in 1..Len(parts) : parts[i].t # "str"
     THEN LET bad == CHOOSE i \in 1..Len(parts) :
                       /\ parts[i].t # "str"
                       /\ \A j \in 1..(i - 1) : parts[j].t = "str"
          IN Raise("sequence item " \o ToString(bad - 1)
                   \o ": expected str instance, " \o TypeName(parts[bad])
                   \o " found")
     ELSE Ok(Str(JoinStr([i \in 1..Len(parts) |-> parts[i].s], ", ")))

\* the owner columns added to a row
WithOwner(row, prop) ==
  IF DictHas(prop, "owner") /\ Truthy(DictItem(prop, "owner"))
  THEN LET owner == DictItem(prop, "owner")
           names == PyGet(owner, "names", List(<<>>))
       IN IF ~names.ok THEN names
          ELSE LET joined == IF Truthy(names.val) THEN JoinNames(names.val)
                             ELSE Ok(Str("N/A"))
               IN IF ~joined.ok THEN joined
                  ELSE Ok(RowAppend(RowAppend(row, "Owner Names", joined.val),
                                    "Owner Type",
                                    DictGet(owner, "type", Str("N/A"))))
  ELSE Ok(RowAppend(RowAppend(row, "Owner Names", Str("N/A")),
                    "Owner Type", Str("N/A")))

\* the feature columns added to a row: only when the record has features
WithFeatures(row, prop) ==
  IF DictHas(prop, "features") /\ Truthy(DictItem(prop, "features"))
  THEN LET features == DictItem(prop, "features")
       IN IF features.t # "dict"
          THEN PyGet(features, "architectureType", Str("N/A"))
          ELSE Ok(Row(row.cols \o <<"Architecture Type", "Exterior Type",
                                    "Heating", "Cooling", "Garage",
                                    "Garage Spaces">>,
                      row.cells \o
                        <<DictGet(features, "architectureType", Str("N/A")),
                          DictGet(features, "exteriorType", Str("N/A")),
                          YesNo(features, "heating"),
                          YesNo(features, "cooling"),
                          YesNo(features, "garage"),
                          DictGet(features, "garageSpaces", Str("N/A"))>>))
  ELSE Ok(row)

\* one pass of the loop body of export_to_csv
CsvRow(prop) ==
  LET base == ScalarRow(prop, CsvFields)
  IN IF ~base.ok THEN base
     ELSE LET owned == WithOwner(base.val, prop)
          IN IF ~owned.ok THEN owned
             ELSE WithFeatures(owned.val, prop)

\* the rows of a loop over the records: the first exception ends the loop
RECURSIVE CollectRows(_, _)
CollectRows(outs, acc) ==
  IF outs = <<>> THEN Ok(acc)
  ELSE IF ~outs[1].ok THEN outs[1]
  ELSE CollectRows(Tail(outs), Append(acc, outs[1].val))

\* export_to_csv without the check for an empty list
export_to_csv_unchecked(results, id, clock) ==
  LET df_data == CollectRows([i \in 1..Len(results) |-> CsvRow(results[i])],
                             <<>>)
  IN IF ~df_data.ok
     THEN Raised("export_to_csv", "CSV export failed: " \o df_data.msg)
     ELSE Returned("export_to_csv", ToCsv(df_data.val),
                   Filename("property_search", id, clock, "csv"))

export_to_csv(results, id, clock) ==
  IF results = <<>>
  THEN Raised("export_to_csv", "CSV export failed: No search results to export")
  ELSE LET df_data == CollectRows([i \in 1..Len(results) |-> CsvRow(results[i])],
                                  <<>>)
       IN IF ~df_data.ok
          THEN Raised("export_to_csv", "CSV export failed: " \o df_data.msg)
          ELSE Returned("export_to_csv", ToCsv(df_data.val),
                        Filename("property_search", id, clock, "csv"))


(* --------------------------- export_to_excel --------------------------- *)
\* the row literal of the Properties sheet
ExcelFields ==
  << <<"Address", "formattedAddress">>, <<"City", "city">>,
     <<"State", "state">>, <<"ZIP Code", "zipCode">>,
     <<"Property Type", "propertyType">>, <<"Bedrooms", "bedrooms">>,
     <<"Bathrooms", "bathrooms">>, <<"Square Footage", "squareFootage">>,
     <<"Lot Size", "lotSize">>, <<"Year Built", "yearBuilt">>,
     <<"Last Sale Price", "lastSalePrice">>,
     <<"Last Sale Date", "lastSaleDate">>,
     <<"Owner Occupied", "ownerOccupied">>,
     <<"County", "county">>, <<"Zoning", "zoning">> >>

\* df.to_excel(writer, sheet_name=name, index=False): a header and one row
\* per dict, a missing cell left empty; openpyxl refuses a list or a dict as
\* a cell value
ToExcel(name, rows) ==
  LET columns == DataFrameColumns(rows)
      cell(i, c) == CellAt(rows[i], columns[c])
      bad == {<<i, c>> \in (1..Len(rows)) \X (1..Len(columns)) :
                cell(i, c).t \in {"list", "dict"}}
  IN IF bad # {}
     THEN LET b == CHOOSE x \in bad : TRUE
          IN Raise("Cannot convert " \o PyRepr(cell(b[1], b[2])) \o " to Excel")
     ELSE Ok([name |-> name, header |-> columns,
              rows |-> [i \in 1..Len(rows) |->
                          [c \in 1..Len(columns) |->
                             IF IsNA(cell(i, c)) THEN None ELSE cell(i, c)]]])

\* first failure of a sequence of outcomes, else the concatenation of their
\* sequences
RECURSIVE ConcatRows(_)
ConcatRows(outs) ==
  IF outs = <<>> THEN Ok(<<>>)
  ELSE IF ~outs[1].ok THEN outs[1]
  ELSE LET rest == ConcatRows(Tail(outs))
       IN IF ~rest.ok THEN rest ELSE Ok(outs[1].val \o rest.val)

\* v.items(): only a dict has it
PyItems(v) ==
  IF v.t = "dict" THEN Ok([i \in 1..Len(v.ks) |-> <<v.ks[i], v.vs[i]>>])
  ELSE Raise("'" \o TypeName(v) \o "' object has no attribute 'items'")

\* the rows one record adds to tax_data, numbered with the index of
\* enumerate as it is
TaxAssessmentRowsZeroBased(i, prop) ==
  IF DictHas(prop, "taxAssessments") /\ Truthy(DictItem(prop, "taxAssessments"))
  THEN LET items == PyItems(DictItem(prop, "taxAssessments"))
       IN IF ~items.ok THEN items
          ELSE CollectRows(
                 [j \in 1..Len(items.val) |->
                    LET year == items.val[j][1]
                        data == items.val[j][2]
                    IN IF data.t # "dict" THEN PyGet(data, "value", Str("N/A"))
                       ELSE Ok(Row(<<"Property Index", "Address", "Year",
                                     "Total Value", "Land Value", "Improvements">>,
                                   <<Num(i - 1),
                                     DictGet(prop, "formattedAddress", Str("N/A")),
                                     year,
                                     DictGet(data, "value", Str("N/A")),
                                     DictGet(data, "land", Str("N/A")),
                                     DictGet(data, "improvements", Str("N/A"))>>))],
                 <<>>)
  ELSE Ok(<<>>)

\* the rows one record adds to tax_data
TaxAssessmentRows(i, prop) ==
  IF DictHas(prop, "taxAssessments") /\ Truthy(DictItem(prop, "taxAssessments"))
  THEN LET items == PyItems(DictItem(prop, "taxAssessments"))
       IN IF ~items.ok THEN items
          ELSE CollectRows(
                 [j \in 1..Len(items.val) |->
                    LET year == items.val[j][1]
                        data == items.val[j][2]
                    IN IF data.t # "dict" THEN PyGet(data, "value", Str("N/A"))
                       ELSE Ok(Row(<<"Property Index", "Address", "Year",
                                     "Total Value", "Land Value", "Improvements">>,
                                   <<Num(i),
                                     DictGet(prop, "formattedAddress", Str("N/A")),
                                     year,
                                     DictGet(data, "value", Str("N/A")),
                                     DictGet(data, "land", Str("N/A")),
                                     DictGet(data, "improvements", Str("N/A"))>>))],
                 <<>>)
  ELSE Ok(<<>>)

\* the rows one record adds to property_tax_data
PropertyTaxRows(i, prop) ==
  IF DictHas(prop, "propertyTaxes") /\ Truthy(DictItem(prop, "propertyTaxes"))
  THEN LET items == PyItems(DictItem(prop, "propertyTaxes"))
       IN IF ~items.ok THEN items
          ELSE CollectRows(
                 [j \in 1..Len(items.val) |->
                    LET year == items.val[j][1]
                        data == items.val[j][2]
                    IN IF data.t # "dict" THEN PyGet(data, "total", Str("N/A"))
                       ELSE Ok(Row(<<"Property Index", "Address", "Year",
                                     "Total Tax">>,
                                   <<Num(i),
                                     DictGet(prop, "formattedAddress", Str("N/A")),
                                     year,
                                     DictGet(data, "total", Str("N/A"))>>))],
                 <<>>)
  ELSE Ok(<<>>)

\* the Search Info rows with the values as they are
MetadataRowsRaw(metadata) ==
  LET items == PyItems(metadata)
  IN IF ~items.ok THEN items
     ELSE Ok([j \in 1..Len(items.val) |->
                Row(<<"Field", "Value">>, <<items.val[j][1], items.val[j][2]>>)])

\* the Search Info rows
MetadataRows(metadata) ==
  LET items == PyItems(metadata)
  IN IF ~items.ok THEN items
     ELSE Ok([j \in 1..Len(items.val) |->
                Row(<<"Field", "Value">>,
                    <<items.val[j][1], Str(PyStr(items.val[j][2]))>>)])

\* a sheet written whether or not there are rows for it
AlwaysSheet(name, rows) ==
  IF ~rows.ok THEN rows
  ELSE LET sheet == ToExcel(name, rows.val)
       IN IF sheet.ok THEN Ok(<<sheet.val>>) ELSE sheet

\* a sheet written only when there are rows for it
OptionalSheet(name, rows) ==
  IF ~rows.ok THEN rows
  ELSE IF rows.val = <<>> THEN Ok(<<>>)
  ELSE LET sheet == ToExcel(name, rows.val)
       IN IF sheet.ok THEN Ok(<<sheet.val>>) ELSE sheet

\* the workbook is the sequence of its sheets, in the order written
export_to_excel(results, metadata, id, clock) ==
  IF results = <<>>
  THEN Raised("export_to_excel",
              "Excel export failed: No search results to export")
  ELSE LET n == Len(results)
           df_data == CollectRows(
                        [i \in 1..n |-> ScalarRow(results[i], ExcelFields)], <<>>)
           main == IF df_data.ok THEN OptionalSheet("Properties", df_data)
                   ELSE df_data
           tax == OptionalSheet("Tax Assessments",
                    ConcatRows([i \in 1..n |-> TaxAssessmentRows(i, results[i])]))
           ptax == OptionalSheet("Property Taxes",
                     ConcatRows([i \in 1..n |-> PropertyTaxRows(i, results[i])]))
           info == IF Truthy(metadata)
                   THEN OptionalSheet("Search Info", MetadataRows(metadata))
                   ELSE Ok(<<>>)
           book == IF ~main.ok THEN main
                   ELSE IF ~tax.ok THEN tax
                   ELSE IF ~ptax.ok THEN ptax
                   ELSE IF ~info.ok THEN info
                   ELSE Ok(main.val \o tax.val \o ptax.val \o info.val)
       IN IF ~book.ok
          THEN Raised("export_to_excel", "Excel export failed: " \o book.msg)
          ELSE Returned("export_to_excel", book.val,
                        Filename("property_search", id, clock, "xlsx"))


(* ------------------------- export_to_pdf_report ------------------------ *)
\* the flowables of the report; the document is their sequence
Paragraph(text, style) == [flow |-> "Paragraph", text |-> text, style |-> style]
Table(data) == [flow |-> "Table", data |-> data]
Spacer(height) == [flow |-> "Spacer", height |-> height]

Lower == "abcdefghijklmnopqrstuvwxyz"
Upper == "ABCDEFGHIJKLMNOPQRSTUVWXYZ"
IsLetter(c) == Substring(c, Lower) \/ Substring(c, Upper)
LetterIndex(c, alphabet) == CHOOSE i \in 1..26 : SubSeq(alphabet, i, i) = c
ToUpper(c) == IF Substring(c, Lower)
              THEN SubSeq(Upper, LetterIndex(c, Lower), LetterIndex(c, Lower))
              ELSE c
ToLower(c) == IF Substring(c, Upper)
              THEN SubSeq(Lower, LetterIndex(c, Upper), LetterIndex(c, Upper))
              ELSE c

\* s.replace("_", " ").title()
TitleLabel(s) ==
  LET spaced == [i \in 1..Len(s) |->
                   IF SubSeq(s, i, i) = "_" THEN " " ELSE SubSeq(s, i, i)]
      cased == [i \in 1..Len(s) |->
                  IF i = 1 \/ ~IsLetter(spaced[i - 1]) THEN ToUpper(spaced[i])
                  ELSE ToLower(spaced[i])]
  IN JoinStr(cased, "")

Pad3(n) == IF n < 10 THEN "00" \o ToString(n)
           ELSE IF n < 100 THEN "0" \o ToString(n) ELSE ToString(n)
\* format(n, ',') of a non-negative int
RECURSIVE Thousands(_)
Thousands(n) == IF n < 1000 THEN ToString(n)
                ELSE Thousands(n \div 1000) \o "," \o Pad3(n % 1000)

\* f"{v:,}"
FormatComma(v) ==
  CASE v.t = "num" -> Ok(IF v.n < 0 THEN "-" \o Thousands(0 - v.n)
                         ELSE Thousands(v.n))
    [] v.t = "bool" -> Ok(IF v.b THEN "1" ELSE "0")
    [] v.t = "str" -> Raise("Cannot specify ',' with 's'.")
    [] v.t = "obj" -> Ok(",")
    [] OTHER -> Raise("unsupported format string passed to "
                      \o TypeName(v) \o ".__format__")

\* the rows of a metadata table of every key
MetadataTableAll(items) ==
  [j \in 1..Len(items) |->
     <<TitleLabel(PyStr(items[j][1])), Str(PyStr(items[j][2]))>>]

\* the rows of the metadata table: every key but "results"
MetadataTable(items) ==
  LET kept == SelectSeq(items, LAMBDA kv : kv[1] # Str("results"))
  IN [j \in 1..Len(kept) |->
        <<TitleLabel(PyStr(kept[j][1])), Str(PyStr(kept[j][2]))>>]

\* the table of one property with the bedroom and bathroom rows exchanged
PropertyTableSwapped(prop) ==
  IF prop.t # "dict" THEN PyGet(prop, "formattedAddress", Str("N/A"))
  ELSE LET sqft == IF Truthy(DictGet(prop, "squareFootage", None))
                   THEN FormatComma(DictGet(prop, "squareFootage", Str("N/A")))
                   ELSE Ok("N/A")
           price == IF Truthy(DictGet(prop, "lastSalePrice", None))
                    THEN FormatComma(DictGet(prop, "lastSalePrice", Num(0)))
                    ELSE Ok("")
           text(key) == Str(PyStr(DictGet(prop, key, Str("N/A"))))
       IN IF ~sqft.ok THEN sqft
          ELSE IF ~price.ok THEN price
          ELSE Ok(<< <<"Address", DictGet(prop, "formattedAddress", Str("N/A"))>>,
                     <<"Property Type", DictGet(prop, "propertyType", Str("N/A"))>>,
                     <<"Bathrooms", text("bathrooms")>>,
                     <<"Bedrooms", text("bedrooms")>>,
                     <<"Square Footage", Str(sqft.val)>>,
                     <<"Year Built", text("yearBuilt")>>,
                     <<"Last Sale Price",
                       IF Truthy(DictGet(prop, "lastSalePrice", None))
                       THEN Str("$" \o price.val) ELSE Str("N/A")>>,
                     <<"Owner Occupied", YesNo(prop, "ownerOccupied")>> >>)

\* the 8-row table of one property: label, cell value as handed to Table
PropertyTable(prop) ==
  IF prop.t # "dict" THEN PyGet(prop, "formattedAddress", Str("N/A"))
  ELSE LET sqft == IF Truthy(DictGet(prop, "squareFootage", None))
                   THEN FormatComma(DictGet(prop, "squareFootage", Str("N/A")))
                   ELSE Ok("N/A")
           price == IF Truthy(DictGet(prop, "lastSalePrice", None))
                    THEN FormatComma(DictGet(prop, "lastSalePrice", Num(0)))
                    ELSE Ok("")
           text(key) == Str(PyStr(DictGet(prop, key, Str("N/A"))))
       IN IF ~sqft.ok THEN sqft
          ELSE IF ~price.ok THEN price
          ELSE Ok(<< <<"Address", DictGet(prop, "formattedAddress", Str("N/A"))>>,
                     <<"Property Type", DictGet(prop, "propertyType", Str("N/A"))>>,
                     <<"Bedrooms", text("bedrooms")>>,
                     <<"Bathrooms", text("bathrooms")>>,
                     <<"Square Footage", Str(sqft.val)>>,
                     <<"Year Built", text("yearBuilt")>>,
                     <<"Last Sale Price",
                       IF Truthy(DictGet(prop, "lastSalePrice", None))
                       THEN Str("$" \o price.val) ELSE Str("N/A")>>,
                     <<"Owner Occupied", YesNo(prop, "ownerOccupied")>> >>)

\* the flowables of property i of n with the larger break after every
\* second section, the last included
PropertySectionBreakAtEnd(i, n, prop) ==
  LET table == PropertyTable(prop)
  IN IF ~table.ok THEN table
     ELSE Ok(<<Paragraph("Property " \o ToString(i), "CustomHeading"),
               Table(table.val), Spacer(15)>>
             \o (IF i % 2 = 0 THEN <<Spacer(50)>> ELSE <<>>))

\* the flowables of property i of n
PropertySection(i, n, prop) ==
  LET table == PropertyTable(prop)
  IN IF ~table.ok THEN table
     ELSE Ok(<<Paragraph("Property " \o ToString(i), "CustomHeading"),
               Table(table.val), Spacer(15)>>
             \o (IF i % 2 = 0 /\ i < n THEN <<Spacer(50)>> ELSE <<>>))

\* the "Search Information" block
MetadataSection(metadata) ==
  IF ~Truthy(metadata) THEN Ok(<<>>)
  ELSE LET items == PyItems(metadata)
       IN IF ~items.ok THEN items
          ELSE LET metadata_data == MetadataTable(items.val)
               IN Ok(<<Paragraph("Search Information", "CustomHeading")>>
                     \o (IF metadata_data # <<>>
                         THEN <<Table(metadata_data), Spacer(20)>>
                         ELSE <<>>))

export_to_pdf_report(results, metadata, id, clock) ==
  IF results = <<>>
  THEN Raised("export_to_pdf_report",
              "PDF export failed: No search results to export")
  ELSE LET n == Len(results)
           head == MetadataSection(metadata)
           body == ConcatRows([i \in 1..n |-> PropertySection(i, n, results[i])])
       IN IF ~head.ok
          THEN Raised("export_to_pdf_report", "PDF export failed: " \o head.msg)
          ELSE IF ~body.ok
          THEN Raised("export_to_pdf_report", "PDF export failed: " \o body.msg)
          ELSE Returned("export_to_pdf_report",
                        <<Paragraph("Property Search Report", "CustomTitle")>>
                        \o head.val
                        \o <<Paragraph("Properties Found: " \o ToString(n),
                                       "CustomHeading")>>
                        \o body.val,
                        Filename("property_report", id, clock, "pdf"))

(* -------------------------- get_export_summary ------------------------- *)
\* dict[key] = value on an ordered dict
DictSet(d, k, v) ==
  IF DictHas(d, k)
  THEN Dict(d.ks, [i \in 1..Len(d.ks) |-> IF d.ks[i] = Str(k) THEN v ELSE d.vs[i]])
  ELSE Dict(Append(d.ks, Str(k)), Append(d.vs, v))

\* summary[field] = prop_data.get(key, summary[field])
CopyFieldWithGet(summary, prop_data, key, field) ==
  LET item == PyGet(prop_data, key, DictItem(summary, field))
  IN IF ~item.ok THEN item ELSE Ok(DictSet(summary, field, item.val))

\* if key in prop_data: summary[field] = prop_data[key]
CopyField(summary, prop_data, key, field) ==
  LET has == PyIn(key, prop_data)
  IN IF ~has.ok THEN has
     ELSE IF ~has.val THEN Ok(summary)
     ELSE LET item == PyItem(prop_data, key)
          IN IF ~item.ok THEN item ELSE Ok(DictSet(summary, field, item.val))

\* the count taken without the isinstance check
CountResultsUnchecked(summary, d) ==
  LET has == PyIn("results", d)
  IN IF ~has.ok THEN has
     ELSE IF ~has.val THEN Ok(summary)
     ELSE LET item == PyItem(d, "results")
          IN IF ~item.ok THEN item
             ELSE IF item.val.t = "list"
             THEN Ok(DictSet(summary, "Total Properties", Num(Len(item.val.items))))
             ELSE IF item.val.t = "str"
             THEN Ok(DictSet(summary, "Total Properties", Num(Len(item.val.s))))
             ELSE Raise("object of type '" \o TypeName(item.val) \o "' has no len()")

\* if "results" in d and isinstance(d["results"], list):
\*     summary["Total Properties"] = len(d["results"])
CountResults(summary, d) ==
  LET has == PyIn("results", d)
  IN IF ~has.ok THEN has
     ELSE IF ~has.val THEN Ok(summary)
     ELSE LET item == PyItem(d, "results")
          IN IF ~item.ok THEN item
             ELSE IF item.val.t = "list"
             THEN Ok(DictSet(summary, "Total Properties", Num(Len(item.val.items))))
             ELSE Ok(summary)

get_export_summary(data, clock) ==
  LET summary == Dict(<<Str("Export Date"), Str("Total Properties"),
                        Str("Search Address"), Str("Search Date")>>,
                      <<Str(ExportDate(clock)), Num(0), Str("N/A"), Str("N/A")>>)
      derived ==
        IF data.t # "dict" THEN Ok(summary)
        ELSE IF DictHas(data, "property_data")
        THEN LET prop_data == DictItem(data, "property_data")
                 a == CopyField(summary, prop_data, "address", "Search Address")
             IN IF ~a.ok THEN a
                ELSE LET b == CopyField(a.val, prop_data, "search_timestamp",
                                        "Search Date")
                     IN IF ~b.ok THEN b ELSE CountResults(b.val, prop_data)
        ELSE CountResults(summary, data)
  IN IF derived.ok THEN derived.val
     ELSE Dict(<<Str("Export Date"), Str("Error")>>,
               <<Str(ExportDate(clock)),
                 Str("Could not generate summary: " \o derived.msg)>>)


(* ---------------------------- Downloads page --------------------------- *)
UnknownAddress == Str("Unknown Address")

\* the address shown for a stored search; any exception gives the default
get_search_address(sd) ==
  IF sd.t # "dict" THEN UnknownAddress
  ELSE IF DictHas(sd, "address") THEN DictItem(sd, "address")
  ELSE LET pd == DictItem(sd, "property_data")
           has == PyIn("address", pd)
           item == PyItem(pd, "address")
           results == DictItem(sd, "results")
           first == PyGet(results.items[1], "formattedAddress", UnknownAddress)
       IN IF DictHas(sd, "property_data") /\ ~has.ok THEN UnknownAddress
          ELSE IF DictHas(sd, "property_data") /\ has.val
          THEN IF item.ok THEN item.val ELSE UnknownAddress
          ELSE IF /\ DictHas(sd, "results")
                  /\ results.t = "list"
                  /\ results.items # <<>>
                  /\ first.ok
          THEN first.val
          ELSE UnknownAddress

\* the property results of a stored search; any exception gives []
get_property_results(sd) ==
  IF sd.t # "dict" THEN List(<<>>)
  ELSE IF DictHas(sd, "results") THEN DictItem(sd, "results")
  ELSE LET pd == DictItem(sd, "property_data")
           has == PyIn("results", pd)
           item == PyItem(pd, "results")
       IN IF DictHas(sd, "property_data") /\ has.ok /\ has.val /\ item.ok
          THEN item.val
          ELSE List(<<>>)

\* the stored search with the list get_property_results returned replaced:
\* the list is an object inside the search, so a change of its records is a
\* change of the search
SetPropertyResults(sd, results) ==
  IF DictHas(sd, "results") THEN DictSet(sd, "results", results)
  ELSE DictSet(sd, "property_data",
               DictSet(DictItem(sd, "property_data"), "results", results))

\* for x in v
Iterate(v) ==
  CASE v.t = "list" -> Ok(v.items)
    [] v.t = "dict" -> Ok(v.ks)
    [] v.t = "str" -> Ok([i \in 1..Len(v.s) |-> Str(SubSeq(v.s, i, i))])
    [] OTHER -> Raise("'" \o TypeName(v) \o "' object is not iterable")

\* len(v)
PyLen(v) ==
  CASE v.t = "list" -> Ok(Len(v.items))
    [] v.t = "dict" -> Ok(Len(v.ks))
    [] v.t = "str" -> Ok(Len(v.s))
    [] OTHER -> Raise("object of type '" \o TypeName(v) \o "' has no len()")

\* the search dates the page can parse, as days from today
KnownDates == {<<"2024-01-01T00:00:00", 0>>, <<"2023-06-01 00:00:00", 0 - 214>>}

\* the date filter of the bulk tab: a search without date, or with a date
\* that does not parse, is left out
InDateRange(search, start_date, end_date) ==
  LET search_date_str == DictGet(search, "search_date", Str(""))
  IN /\ Truthy(search_date_str)
     /\ search_date_str.t = "str"
     /\ \E d \in KnownDates : /\ d[1] = search_date_str.s
                              /\ start_date <= d[2]
                              /\ d[2] <= end_date

\* result["search_id"] = ...; result["search_date"] = ...;
\* result["search_address"] = ...: item assignment on the stored record
TagResult(res, search) ==
  IF res.t = "dict"
  THEN Ok(DictSet(DictSet(DictSet(res, "search_id", DictGet(search, "id", None)),
                          "search_date", DictGet(search, "search_date", None)),
                  "search_address",
                  get_search_address(DictGet(search, "property_data",
                                             Dict(<<>>, <<>>)))))
  ELSE Raise("'" \o TypeName(res) \o "' object does not support item assignment")

\* the loop over the records of one search: each is tagged in place, in
\* order, up to the first one that cannot be
RECURSIVE TagEach(_, _, _)
TagEach(items, search, acc) ==
  IF items = <<>> THEN [ok |-> TRUE, msg |-> "", items |-> acc]
  ELSE IF ~TagResult(items[1], search).ok
  THEN [ok |-> FALSE, msg |-> TagResult(items[1], search).msg,
        items |-> acc \o items]
  ELSE TagEach(Tail(items), search, Append(acc, TagResult(items[1], search).val))

\* the search after the loop over `results`, and the records it adds to
\* all_results
Tagged(search, results, each) ==
  [ok |-> each.ok, msg |-> each.msg,
   search |-> IF results.t = "list" /\ results.items # <<>>
              THEN SetPropertyResults(search, List(each.items))
              ELSE search,
   results |-> IF each.ok /\ results.t = "list" THEN each.items ELSE <<>>]

TagIterated(search, results) ==
  IF ~Iterate(results).ok
  THEN [ok |-> FALSE, msg |-> Iterate(results).msg, search |-> search,
        results |-> <<>>]
  ELSE Tagged(search, results, TagEach(Iterate(results).val, search, <<>>))

\* one pass of the loop over filtered_searches
TagSearch(search) ==
  TagIterated(search,
              get_property_results(DictGet(search, "property_data",
                                           Dict(<<>>, <<>>))))

\* the rest of the loop over filtered_searches (positions idx of all) after
\* one pass
RECURSIVE TagAll(_, _, _)
TagRest(all, idx, all_results, one) ==
  IF ~one.ok
  THEN [ok |-> FALSE, msg |-> one.msg,
        searches |-> [all EXCEPT ![idx[1]] = one.search],
        all_results |-> all_results]
  ELSE TagAll([all EXCEPT ![idx[1]] = one.search], Tail(idx),
              all_results \o one.results)

\* the loop over filtered_searches: the searches as the loop leaves them,
\* and all_results
TagAll(all, idx, all_results) ==
  IF idx = <<>>
  THEN [ok |-> TRUE, msg |-> "", searches |-> all, all_results |-> all_results]
  ELSE TagRest(all, idx, all_results, TagSearch(all[idx[1]]))

\* the metadata of the combined export
BulkMetadata(start_date, total, clock) ==
  Dict(<<Str("export_type"), Str("date_range"), Str("total_searches"),
         Str("export_date")>>,
       <<Str("bulk_download"),
         Str((IF start_date = 0 - 30 THEN "2023-12-02" ELSE "2023-01-01")
             \o " to 2024-01-01"),
         Num(total),
         Str("2024-01-01T00:00:" \o Pad2(clock))>>)

\* s.lower()
LowerStr(s) == JoinStr([i \in 1..Len(s) |-> ToLower(SubSeq(s, i, i))], "")

\* the positions of the searches the individual tab lists under a filter
\* text: search_filter.lower() in address.lower(), failing on an address
\* that is not a str
FilterSearches(all, search_filter) ==
  LET address(i) == get_search_address(DictGet(all[i], "property_data",
                                               Dict(<<>>, <<>>)))
      idx == [i \in 1..Len(all) |-> i]
  IN IF search_filter = "" THEN Ok(idx)
     ELSE IF \E i \in 1..Len(all) : address(i).t # "str"
     THEN LET i == CHOOSE i \in 1..Len(all) : address(i).t # "str"
          IN Raise("'" \o TypeName(address(i))
                   \o "' object has no attribute 'lower'")
     ELSE Ok(SelectSeq(idx, LAMBDA i : Substring(LowerStr(search_filter),
                                                 LowerStr(address(i).s))))

\* results[0]
FirstOf(results) ==
  CASE results.t = "list" -> Ok(results.items[1])
    [] results.t = "str" -> Ok(Str(SubSeq(results.s, 1, 1)))
    [] OTHER -> Raise("0")

\* the property preview of the individual tab: what it can raise
Preview(results) ==
  LET prop == FirstOf(results)
      sqft == FormatComma(DictGet(prop.val, "squareFootage", Str("N/A")))
      last_sale == FormatComma(DictGet(prop.val, "lastSalePrice", None))
  IN IF ~prop.ok THEN prop
     ELSE IF prop.val.t # "dict" THEN PyGet(prop.val, "propertyType", Str("N/A"))
     ELSE IF Truthy(DictGet(prop.val, "squareFootage", None)) /\ ~sqft.ok
     THEN sqft
     ELSE IF Truthy(DictGet(prop.val, "lastSalePrice", None)) /\ ~last_sale.ok
     THEN last_sale
     ELSE Ok(prop.val)

NothingToDownload(fn) == [fn |-> fn, status |-> "nothing"]

\* the individual tab for the search selected: the four download buttons
\* are built only for a search that has results
IndividualFlow(all, search_filter, k, clock) ==
  LET fn == "individual_download"
      shown == FilterSearches(all, search_filter)
      selected_search == all[shown.val[k]]
      id == DictGet(selected_search, "id", None)
      property_data == DictGet(selected_search, "property_data", Dict(<<>>, <<>>))
      results == get_property_results(property_data)
      count == PyLen(results)
      preview == Preview(results)
      summary == get_export_summary(selected_search, clock)
  IN IF ~shown.ok THEN Raised(fn, "Error loading searches: " \o shown.msg)
     ELSE IF shown.val = <<>> THEN NothingToDownload(fn)
     ELSE IF ~count.ok THEN Raised(fn, "Error loading searches: " \o count.msg)
     ELSE IF ~Truthy(results) THEN NothingToDownload(fn)
     ELSE IF ~preview.ok
     THEN Raised(fn, "Error loading searches: " \o preview.msg)
     ELSE [fn |-> fn, status |-> "returned",
           json |-> export_to_json(property_data, id, clock),
           csv |-> export_to_csv(results.items, id, clock),
           excel |-> export_to_excel(results.items, summary, id, clock),
           pdf |-> export_to_pdf_report(results.items, summary, id, clock)]

\* the bulk tab exporting the combined list without looking whether it is
\* empty
BulkFlowUnguarded(all, start_date, clock) ==
  LET fn == "bulk_download"
      filtered == SelectSeq([i \in 1..Len(all) |-> i],
                            LAMBDA i : InDateRange(all[i], start_date, 0))
      tagged == TagAll(all, filtered, <<>>)
      metadata == BulkMetadata(start_date, Len(filtered), clock)
  IN [searches |-> tagged.searches,
      result |->
        IF filtered = <<>> THEN NothingToDownload(fn)
        ELSE IF ~tagged.ok
        THEN Raised(fn, "Error loading bulk download data: " \o tagged.msg)
        ELSE [fn |-> fn, status |-> "returned",
              csv |-> export_to_csv(tagged.all_results, Str("bulk"), clock),
              excel |-> export_to_excel(tagged.all_results, metadata,
                                        Str("bulk"), clock)]]

\* the bulk tab: the searches in the date range are combined, each record
\* tagged with its search, and the combined list exported when not empty
BulkFlow(all, start_date, clock) ==
  LET fn == "bulk_download"
      filtered == SelectSeq([i \in 1..Len(all) |-> i],
                            LAMBDA i : InDateRange(all[i], start_date, 0))
      tagged == TagAll(all, filtered, <<>>)
      metadata == BulkMetadata(start_date, Len(filtered), clock)
  IN [searches |-> tagged.searches,
      result |->
        IF filtered = <<>> THEN NothingToDownload(fn)
        ELSE IF ~tagged.ok
        THEN Raised(fn, "Error loading bulk download data: " \o tagged.msg)
        ELSE IF tagged.all_results = <<>> THEN NothingToDownload(fn)
        ELSE [fn |-> fn, status |-> "returned",
              csv |-> export_to_csv(tagged.all_results, Str("bulk"), clock),
              excel |-> export_to_excel(tagged.all_results, metadata,
                                        Str("bulk"), clock)]]

(* ------------------------------ inputs --------------------------------- *)
\* a dict from its (key, value) pairs
MkDict(pairs) == Dict([i \in 1..Len(pairs) |-> Str(pairs[i][1])],
                      [i \in 1..Len(pairs) |-> pairs[i][2]])

\* sequences of length at most n over a set
SeqsUpTo(S, n) == UNION {[1..k -> S] : k \in 0..n}

Addr1 == <<"formattedAddress", Str("1 Main St")>>
Addr2 == <<"formattedAddress", Str("2 Oak Ave")>>

Names(xs) == <<"names", List(xs)>>
Year(value) == MkDict(<< <<"value", Num(value)>>, <<"land", Num(40)>> >>)

\* records with none of the optional fields
PlainRecords == {MkDict(<<>>), MkDict(<<Addr1>>)}

\* a record with every kind of field
FullRecord ==
  MkDict(<<Addr2, <<"city", Str("Springfield")>>, <<"bedrooms", Num(4)>>,
           <<"ownerOccupied", Bool(TRUE)>>,
           <<"owner", MkDict(<<Names(<<Str("Cy")>>)>>)>>,
           <<"features", MkDict(<< <<"heating", Bool(TRUE)>> >>)>>,
           <<"taxAssessments", MkDict(<< <<"2023", Year(100)>> >>)>> >>)

\* property records as the data model describes them: owner, features and
\* tax mappings present, empty, null or absent; scalar fields holding a
\* value, a falsy value, null or nothing
GoodRecords ==
  PlainRecords
  \cup {FullRecord,
        MkDict(<<Addr1,
                 <<"owner", MkDict(<<Names(<<Str("Ann"), Str("Bob")>>),
                                     <<"type", Str("Individual")>> >>)>>,
                 <<"taxAssessments",
                   MkDict(<< <<"2022", Year(90)>>, <<"2023", Year(100)>> >>)>> >>),
        MkDict(<<Addr2, <<"bedrooms", Num(3)>>, <<"squareFootage", Num(1500)>>,
                 <<"lastSalePrice", Num(350000)>>,
                 <<"ownerOccupied", Bool(TRUE)>>,
                 <<"owner", MkDict(<<Names(<<>>)>>)>>,
                 <<"propertyTaxes",
                   MkDict(<< <<"2023", MkDict(<< <<"total", Num(12)>> >>)>> >>)>> >>),
        MkDict(<<Addr1, <<"city", None>>, <<"squareFootage", Num(0)>>,
                 <<"lastSalePrice", None>>, <<"ownerOccupied", Bool(FALSE)>>,
                 <<"owner", MkDict(<< <<"type", Str("Organization")>> >>)>>,
                 <<"taxAssessments", MkDict(<< <<"2023", Year(100)>> >>)>>,
                 <<"propertyTaxes", MkDict(<< <<"2023", MkDict(<<>>)>> >>)>> >>),
        MkDict(<<Addr2, <<"squareFootage", Str("1500")>>,
                 <<"ownerOccupied", Str("yes")>>,
                 <<"owner", MkDict(<<>>)>>, <<"features", MkDict(<<>>)>>,
                 <<"taxAssessments", MkDict(<<>>)>>,
                 <<"propertyTaxes", None>> >>),
        MkDict(<<Addr2,
                 <<"features",
                   MkDict(<< <<"architectureType", Str("Ranch")>>,
                             <<"heating", Bool(TRUE)>>, <<"garage", Bool(TRUE)>>,
                             <<"garageSpaces", Num(2)>> >>)>> >>),
        MkDict(<<Addr2,
                 <<"features", MkDict(<< <<"cooling", Bool(FALSE)>> >>)>> >>)}

\* mappings with a field of an unexpected type
BadFieldRecords ==
  {MkDict(<<Addr1, <<"owner", Str("John")>> >>),
   MkDict(<<Addr1, <<"owner", MkDict(<<Names(<<Str("Ann"), None>>)>>)>> >>),
   MkDict(<<Addr2, <<"features", List(<<Str("pool")>>)>> >>),
   MkDict(<<Addr1, <<"taxAssessments", List(<<Num(2023)>>)>> >>),
   MkDict(<<Addr1, <<"propertyTaxes", MkDict(<< <<"2023", Num(12)>> >>)>> >>)}

\* entries that are not mappings
NonMappings == {Str("junk")}

Records == GoodRecords \cup BadFieldRecords \cup NonMappings

ResultLists == SeqsUpTo(Records, MaxRecords)
\* longer lists, of records without optional fields: the reports of three
\* and more sections
LongLists == UNION {[1..n -> PlainRecords] : n \in 3..MaxSections}

Metadatas ==
  {None, MkDict(<<>>),
   MkDict(<< <<"results", List(<<MkDict(<<Addr1>>)>>)>> >>),
   MkDict(<< <<"export_type", Str("bulk_download")>>,
             <<"total_searches", Num(2)>>,
             <<"results", List(<<>>)>> >>),
   Str("meta")}

SearchIds == {None, Str("s1"), Str(""), Str("export"), Num(7)}

\* JSON input: scalars, a value json does not know, and containers of them
ADate == Obj("2024-01-01 00:00:00")
Leaves == {Str("a"), Num(7), Bool(TRUE), None, ADate}
Keys == {Str("a"), Str("b"), Num(1), ADate}
Distinct(seq) == \A i, j \in 1..Len(seq) : seq[i] = seq[j] => i = j
ListsOver(S, n) == {List(xs) : xs \in SeqsUpTo(S, n)}
DictsOver(K, S, n) ==
  UNION {{Dict(ks, vs) : vs \in [1..Len(ks) -> S]} :
           ks \in {q \in SeqsUpTo(K, n) : Distinct(q)}}
Flat == Leaves \cup ListsOver(Leaves, MaxLen)
               \cup DictsOver(Keys, {Num(7), None, ADate}, MaxLen)
JsonValues == Flat \cup ListsOver(Flat, 1) \cup DictsOver({Str("a")}, Flat, 1)

\* stored searches: the two shapes get_export_summary reads, and surprises
PropertyDatas ==
  {MkDict(a \o ts \o r) :
     a \in {<<>>, << <<"address", Str("1 Main St")>> >>},
     ts \in {<<>>, << <<"search_timestamp", Str("2024-01-01T00:00:00")>> >>},
     r \in {<<>>} \cup {<< <<"results", v>> >> :
              v \in ListsOver({MkDict(<<>>)}, MaxRecords)
                    \cup {Str("none"), None}}}
OddPropertyDatas ==
  {None, Num(5), Str("abc"), Str("my address"), Str("results"),
   List(<<>>), List(<<Str("address")>>)}
Searches ==
  {MkDict(<< <<"id", Str("s1")>>, <<"property_data", pd>> >>) :
     pd \in PropertyDatas \cup OddPropertyDatas}
  \cup {MkDict(<< <<"address", Str("1 Main St")>> >> \o r) :
          r \in {<<>>} \cup {<< <<"results", v>> >> :
                   v \in ListsOver({MkDict(<<>>)}, MaxRecords)
                         \cup {Str("none"), None}}}

SearchDatas == JsonValues \cup Searches

\* rows of the searches table as the Downloads page fetches them
StoredSearch(id, search_date, property_data) ==
  MkDict(<< <<"id", Str(id)>>, <<"property_data", property_data>>,
            <<"search_date", search_date>> >>)
Today == Str("2024-01-01T00:00:00")
LastYear == Str("2023-06-01 00:00:00")

\* property_data as save_property_search of search_database writes it
SavedData(address, results) ==
  MkDict(<< <<"address", address>>, <<"results", results>>,
            <<"search_params", MkDict(<<>>)>>,
            <<"search_timestamp", Str("2024-01-01T00:00:00")>> >>)

StoredSearches ==
  {StoredSearch("s1", Today, SavedData(Str("1 Main St"), List(<<FullRecord>>))),
   StoredSearch("s2", Today,
                MkDict(<< <<"results",
                            List(<<MkDict(<<Addr1>>),
                                   MkDict(<<Addr2, <<"bedrooms", Num(3)>> >>)>>)>> >>)),
   StoredSearch("s3", LastYear,
                SavedData(Str("2 Oak Ave"),
                          List(<<MkDict(<<Addr2,
                                          <<"squareFootage", Str("1500")>> >>)>>))),
   StoredSearch("s4", Today, SavedData(Str("2 Oak Ave"), List(<<>>))),
   \* the Property Search page stores the record itself as property_data
   StoredSearch("s5", Today, FullRecord),
   StoredSearch("s6", Today, SavedData(Str("1 Main St"), List(<<Str("junk")>>))),
   StoredSearch("s7", Today, SavedData(None, None))}

SearchLists == {q \in SeqsUpTo(StoredSearches, MaxRecords) : Distinct(q)}

\* filter texts of the individual tab, starts of the bulk date range
Filters == {"", "oak"}
StartDates == {0 - 30, 0 - 365}

(* ------------------------------- quota --------------------------------- *)
MAX_QUERIES == 30

\* the usage counter of utils.database, of which only the calls are in the
\* sources: get_user_usage reads it, increment_usage adds one query
get_user_usage(counter) == counter
increment_usage(counter) == counter + 1

\* the limit test letting a user at the limit through
check_query_limit_inclusive(counter) == get_user_usage(counter) <= MAX_QUERIES

\* True if under the limit
check_query_limit(counter) == get_user_usage(counter) < MAX_QUERIES

\* what requests.get can give: a status, with the decoded body for 200, or a
\* RequestException
Found == MkDict(<<Addr1, <<"bedrooms", Num(3)>> >>)
Answer(status, body) == [status |-> status, body |-> body]
NetworkError == [status |-> 0, body |-> None]
Answers ==
  {Answer(200, List(<<Found>>)), Answer(200, List(<<>>)), Answer(404, None),
   NetworkError}

\* get_market_data: the counter after the call, the requests sent and the
\* value returned
get_market_data(counter, answer) ==
  IF ~check_query_limit(counter)
  THEN [usage |-> counter, requests |-> 0, value |-> None]
  ELSE IF answer.status = 200
  THEN [usage |-> increment_usage(counter), requests |-> 1,
        value |-> answer.body]
  ELSE [usage |-> counter, requests |-> 1, value |-> None]

(* ----------------------------- datastore ------------------------------- *)
\* the session's user and another user of the application
Users == {"A", "B"}
\* the datastore as a call finds it: reachable, no client (get_user_client
\* gives None), or a client whose request fails
Stores == {"up", "down", "failing"}

IsoFormat(clock) == "2024-01-01T00:00:" \o Pad2(clock)

\* a row of the table property_searches; the datastore gives it its id and,
\* unless the insert has one, its search_date
SearchRow(id, user_id, property_data, search_date) ==
  MkDict(<< <<"id", Num(id)>>, <<"user_id", Str(user_id)>>,
            <<"property_data", property_data>>,
            <<"search_date", Str(search_date)>> >>)
RowId(row) == DictItem(row, "id").n
OwnerOf(row) == DictItem(row, "user_id").s

\* table(...).select("*") / .delete() with .eq("id", ...).eq("user_id", ...)
Matches(row, search_id, user_id) ==
  RowId(row) = search_id /\ OwnerOf(row) = user_id

\* save_property_search of search_database: the table after the call and
\* the dict returned
save_property_search(store, table, id, user_id, address, search_results, search_params, clock) ==
  CASE store = "down" ->
         [table |-> table, success |-> FALSE,
          message |-> "Database connection failed"]
    [] store = "failing" ->
         [table |-> table, success |-> FALSE,
          message |-> "Error saving search: request failed"]
    [] OTHER ->
         [table |->
            Append(table,
                   SearchRow(id, user_id,
                       MkDict(<< <<"address", Str(address)>>,
                                 <<"results", search_results>>,
                                 <<"search_params",
                                   IF Truthy(search_params) THEN search_params
                                   ELSE MkDict(<<>>)>>,
                                 <<"search_timestamp", Str(IsoFormat(clock))>> >>),
                       IsoFormat(clock))),
          success |-> TRUE, message |-> "Search saved successfully"]

Reverse(seq) == [i \in 1..Len(seq) |-> seq[Len(seq) + 1 - i]]
FirstN(seq, n) == SubSeq(seq, 1, IF Len(seq) < n THEN Len(seq) ELSE n)

\* get_user_searches: the user's rows, latest search_date first (rows are
\* inserted in the order of their dates), at most `limit` of them
get_user_searches(store, table, user_id, limit) ==
  IF store # "up" THEN <<>>
  ELSE FirstN(Reverse(SelectSeq(table, LAMBDA row : OwnerOf(row) = user_id)),
              limit)

\* get_search_by_id without the test of the owner
get_search_by_id_any_owner(store, table, search_id, user_id) ==
  LET data == SelectSeq(table, LAMBDA row : RowId(row) = search_id)
  IN IF store # "up" \/ data = <<>> THEN None ELSE data[1]

\* get_search_by_id: the row with this id if it is the user's, else None
get_search_by_id(store, table, search_id, user_id) ==
  LET data == SelectSeq(table, LAMBDA row : Matches(row, search_id, user_id))
  IN IF store # "up" \/ data = <<>> THEN None ELSE data[1]

\* delete_search: the table after the call and the dict returned
delete_search(store, table, search_id, user_id) ==
  CASE store = "down" ->
         [table |-> table, success |-> FALSE,
          message |-> "Database connection failed"]
    [] store = "failing" ->
         [table |-> table, success |-> FALSE,
          message |-> "Error deleting search: request failed"]
    [] OTHER ->
         [table |-> SelectSeq(table,
                              LAMBDA row : ~Matches(row, search_id, user_id)),
          success |-> TRUE, message |-> "Search deleted successfully"]

(* ------------------------- fetch_property_details ---------------------- *)
\* the counter and the table after the call, the requests sent and the
\* value returned; a search that was answered is saved by the call itself
fetch_property_details(counter, table, id, address, user_id, answer, store, clock) ==
  IF ~check_query_limit(counter)
  THEN [usage |-> counter, table |-> table, requests |-> 0, value |-> None]
  ELSE IF answer.status = 200
  THEN [usage |-> increment_usage(counter),
        table |-> save_property_search(store, table, id, user_id, address,
                                       answer.body,
                                       MkDict(<< <<"address", Str(address)>> >>),
                                       clock).table,
        requests |-> 1, value |-> answer.body]
  ELSE [usage |-> counter, table |-> table, requests |-> 1, value |-> None]

(* ------------------------- Saved Searches page ------------------------- *)
ConfirmKey(search_id) == "confirm_delete_" \o ToString(search_id)
DetailsKey(search_id) == "show_details_" \o ToString(search_id)

\* the View button: the details of the search are shown or hidden
view_click(keys, search_id) ==
  IF DetailsKey(search_id) \in keys THEN keys \ {DetailsKey(search_id)}
  ELSE keys \cup {DetailsKey(search_id)}

\* the Delete button deleting at the first click
delete_click_unconfirmed(keys, store, table, search_id, user_id) ==
  [keys |-> keys,
   table |-> delete_search(store, table, search_id, user_id).table,
   called |-> TRUE]

\* the Delete button: the session keys and the table after the click, and
\* whether delete_search was called
delete_click(keys, store, table, search_id, user_id) ==
  IF ConfirmKey(search_id) \in keys
  THEN [keys |-> keys,
        table |-> delete_search(store, table, search_id, user_id).table,
        called |-> TRUE]
  ELSE [keys |-> keys \cup {ConfirmKey(search_id)}, table |-> table,
        called |-> FALSE]

(* ------------------------- Property Search page ------------------------ *)
\* the first property of what the API client returned, None without one
process_property_data(raw_data) ==
  CASE raw_data.t = "list" ->
         IF raw_data.items = <<>> THEN None ELSE raw_data.items[1]
    [] raw_data.t = "dict" ->
         LET properties ==
               IF DictHas(raw_data, "properties")
               THEN DictItem(raw_data, "properties")
               ELSE IF DictHas(raw_data, "data") THEN DictItem(raw_data, "data")
               ELSE IF \E key \in {"formattedAddress", "propertyType",
                                   "bedrooms", "id"} : DictHas(raw_data, key)
               THEN List(<<raw_data>>)
               ELSE List(<<>>)
         IN IF ~Truthy(properties) \/ properties.t # "list" THEN None
            ELSE properties.items[1]
    [] OTHER -> None

\* save_property_search of the page: the property itself is inserted as
\* property_data, with the time of the search
save_search_of_page(store, table, id, user_id, property_data, clock) ==
  IF store # "up" THEN table
  ELSE Append(table, SearchRow(id, user_id, property_data, IsoFormat(clock)))

\* the Search button: the counter and the table after the click, whether a
\* property was found and the requests sent
search_click(counter, table, id, address, user_id, answer, store, page_store, clock) ==
  LET call == fetch_property_details(counter, table, id, address, user_id,
                                     answer, store, clock)
  IN IF address = ""
     THEN [usage |-> counter, table |-> table, found |-> FALSE,
           requests |-> 0]
     ELSE IF ~Truthy(process_property_data(call.value))
     THEN [usage |-> call.usage, table |-> call.table, found |-> FALSE,
           requests |-> call.requests]
     ELSE [usage |-> call.usage,
           table |-> save_search_of_page(page_store, call.table,
                                         id + Len(call.table) - Len(table),
                                         user_id,
                                         process_property_data(call.value),
                                         clock),
           found |-> TRUE, requests |-> call.requests]

(* --------------------------- state machine ----------------------------- *)
VARIABLES
  search_data,      \* argument of export_to_json and get_export_summary
  search_results,   \* argument of the csv, excel and pdf exporters
  search_metadata,  \* argument of the excel and pdf exporters
  search_id,        \* argument of every exporter
  searches,         \* the stored searches the Downloads page has fetched
  now,              \* the clock, in seconds
  result,           \* outcome of the last call
  usage,            \* the queries counted for the session's user
  property_searches,\* the rows of the table property_searches
  next_id,          \* the id the datastore gives the next row
  session_state,    \* the keys of st.session_state that are set to True
  sessions          \* where each concurrent session is in its call

vars ==
  <<search_data, search_results, search_metadata, search_id, searches, now,
    result, usage, property_searches, next_id, session_state, sessions>>
args == <<search_data, search_results, search_metadata, search_id>>
\* the state of the application around the exporters
app == <<usage, property_searches, next_id, session_state, sessions>>

Sessions == {1, 2}
\* a session between two calls, after `calls` calls
Between(calls) == [at |-> "idle", calls |-> calls, fn |-> "", body |-> None]
Idle == Between(0)
\* no query counted, no search stored, nobody in a call
AppIdle ==
  /\ usage = 0
  /\ property_searches = <<>>
  /\ next_id = 1
  /\ session_state = {}
  /\ sessions = [s \in Sessions |-> Idle]

\* no call made yet: a run is one call on the arguments drawn, at some second
NoCall == [fn |-> "none", status |-> "none"]

Init ==
  /\ \/ /\ search_results \in ResultLists
        /\ search_metadata = None
        /\ search_id = None
        /\ search_data = List(<<>>)
        /\ searches = <<>>
     \/ /\ search_results \in SeqsUpTo(Records, 1)
        /\ search_metadata \in Metadatas
        /\ search_id \in SearchIds
        /\ search_data = List(<<>>)
        /\ searches = <<>>
     \/ /\ search_results = <<>>
        /\ search_metadata = None
        /\ search_id = Str("s1")
        /\ search_data \in SearchDatas
        /\ searches = <<>>
     \/ /\ search_results = <<>>
        /\ search_metadata = None
        /\ search_id = None
        /\ search_data = List(<<>>)
        /\ searches \in SearchLists
     \/ /\ search_results \in LongLists
        /\ search_metadata = None
        /\ search_id = None
        /\ search_data = List(<<>>)
        /\ searches = <<>>
  /\ now = 0
  /\ result = NoCall
  /\ AppIdle

ExportToJson ==
  /\ result = NoCall
  /\ result' = export_to_json(search_data, search_id, now)
  /\ UNCHANGED <<args, searches, now, app>>

ExportToCsv ==
  /\ result = NoCall
  /\ result' = export_to_csv(search_results, search_id, now)
  /\ UNCHANGED <<args, searches, now, app>>

ExportToExcel ==
  /\ result = NoCall
  /\ result' = export_to_excel(search_results, search_metadata, search_id, now)
  /\ UNCHANGED <<args, searches, now, app>>

ExportToPdfReport ==
  /\ result = NoCall
  /\ result' = export_to_pdf_report(search_results, search_metadata,
                                    search_id, now)
  /\ UNCHANGED <<args, searches, now, app>>

GetExportSummary ==
  /\ result = NoCall
  /\ result' = [fn |-> "get_export_summary", status |-> "returned",
                summary |-> get_export_summary(search_data, now)]
  /\ UNCHANGED <<args, searches, now, app>>

\* the individual tab of the Downloads page, for a filter text and a search
\* selected among those listed
IndividualDownload ==
  /\ result = NoCall
  /\ searches # <<>>
  /\ \E search_filter \in Filters, k \in 1..Len(searches) :
       LET shown == FilterSearches(searches, search_filter)
       IN /\ (shown.ok /\ shown.val # <<>>) => k <= Len(shown.val)
          /\ (~shown.ok \/ shown.val = <<>>) => k = 1
          /\ result' = IndividualFlow(searches, search_filter, k, now)
  /\ UNCHANGED <<args, searches, now, app>>

\* the bulk tab of the Downloads page, for a start of the date range
BulkDownload ==
  /\ result = NoCall
  /\ searches # <<>>
  /\ \E start_date \in StartDates :
       LET flow == BulkFlow(searches, start_date, now)
       IN /\ searches' = flow.searches
          /\ result' = flow.result
  /\ UNCHANGED <<args, now, app>>

\* a second passes
Tick ==
  /\ now < MaxClock
  /\ now' = now + 1
  /\ UNCHANGED <<args, searches, result, app>>

Next ==
  \/ ExportToJson
  \/ ExportToCsv
  \/ ExportToExcel
  \/ ExportToPdfReport
  \/ GetExportSummary
  \/ IndividualDownload
  \/ BulkDownload
  \/ Tick

Spec == Init /\ [][Next]_vars

(* ----------------------- the application's calls ----------------------- *)
QuotaFunctions == {"fetch_property_details", "get_market_data"}
\* usage of the session's user at the start of a run
UsageLevels == {MAX_QUERIES - 2, MAX_QUERIES}
\* the search user B has stored
RowOfB == SearchRow(1, "B", SavedData(Str("2 Oak Ave"), List(<<FullRecord>>)),
                    IsoFormat(0))
\* no export in progress
NoExport ==
  /\ search_results = <<>>
  /\ search_metadata = None
  /\ search_id = None
  /\ search_data = List(<<>>)
  /\ searches = <<>>
  /\ now = 0

AppInit ==
  /\ NoExport
  /\ result = NoCall
  /\ usage \in UsageLevels
  /\ property_searches = <<RowOfB>>
  /\ next_id = 2
  /\ session_state = {}
  /\ sessions = [s \in Sessions |-> Idle]

\* the outcome of a call of the API client: the value returned, the
\* requests the call sent and the answer it got
Queried(fn, call, answer) ==
  [fn |-> fn, status |-> "returned", value |-> call.value,
   requests |-> call.requests,
   answer |-> IF call.requests = 0 THEN 0 - 1 ELSE answer.status]
exports == <<args, searches, now>>

\* fetch_property_details("1 Main St", A, ...) for an answer of the API and
\* a state of the datastore
FetchPropertyDetails ==
  /\ next_id <= MaxSearchId
  /\ \E answer \in Answers, store \in Stores :
       LET call == fetch_property_details(usage, property_searches, next_id,
                                          "1 Main St", "A", answer, store, now)
       IN /\ usage' = call.usage
          /\ property_searches' = call.table
          /\ next_id' = next_id + Len(call.table) - Len(property_searches)
          /\ result' = Queried("fetch_property_details", call, answer)
  /\ UNCHANGED <<exports, session_state, sessions>>

\* get_market_data("1 Main St", A, ...) for an answer of the API
GetMarketData ==
  /\ \E answer \in Answers :
       LET call == get_market_data(usage, answer)
       IN /\ usage' = call.usage
          /\ result' = Queried("get_market_data", call, answer)
  /\ UNCHANGED <<exports, property_searches, next_id, session_state, sessions>>

\* the ids a caller can ask for
RowIds == 1..MaxSearchId
Got(fn, search, value) ==
  [fn |-> fn, status |-> "returned", search |-> search, value |-> value]

\* get_user_searches(A)
GetUserSearches ==
  /\ \E store \in Stores :
       result' = Got("get_user_searches", 0,
                     List(get_user_searches(store, property_searches, "A", 50)))
  /\ UNCHANGED <<exports, app>>

\* get_search_by_id(search_id, A)
GetSearchById ==
  /\ \E store \in Stores, search \in RowIds :
       result' = Got("get_search_by_id", search,
                     get_search_by_id(store, property_searches, search, "A"))
  /\ UNCHANGED <<exports, app>>

\* delete_search(search_id, A)
DeleteSearch ==
  /\ \E store \in Stores, search \in RowIds :
       LET call == delete_search(store, property_searches, search, "A")
       IN /\ property_searches' = call.table
          /\ result' = Got("delete_search", search, Bool(call.success))
  /\ UNCHANGED <<exports, usage, next_id, session_state, sessions>>

\* the searches the Saved Searches page lists, with a View and a Delete
\* button each
Listed == get_user_searches("up", property_searches, "A", 25)

\* a click on the View button of a listed search
ViewClick ==
  /\ \E i \in 1..Len(Listed) :
       /\ session_state' = view_click(session_state, RowId(Listed[i]))
       /\ result' = Got("view_click", RowId(Listed[i]), None)
  /\ UNCHANGED <<exports, usage, property_searches, next_id, sessions>>

\* a click on the Delete button of a listed search
DeleteClick ==
  /\ \E i \in 1..Len(Listed), store \in Stores :
       LET click == delete_click(session_state, store, property_searches,
                                 RowId(Listed[i]), "A")
       IN /\ session_state' = click.keys
          /\ property_searches' = click.table
          /\ result' = Got("delete_click", RowId(Listed[i]), Bool(click.called))
  /\ UNCHANGED <<exports, usage, next_id, sessions>>

\* a click on Search Property, for an address typed, an answer of the API
\* and a state of the datastore for each of the two clients
SearchClick ==
  /\ next_id + 1 <= MaxSearchId
  /\ \E address \in {"", "1 Main St"}, answer \in Answers, store \in Stores,
        page_store \in {"up", "failing"} :
       LET click == search_click(usage, property_searches, next_id, address,
                                 "A", answer, store, page_store, now)
       IN /\ usage' = click.usage
          /\ property_searches' = click.table
          /\ next_id' = next_id + Len(click.table) - Len(property_searches)
          /\ result' = [fn |-> "search_click", status |-> "returned",
                        found |-> click.found, requests |-> click.requests,
                        answer |-> IF click.requests = 0 THEN 0 - 1
                                   ELSE answer.status,
                        stores |-> <<store, page_store>>]
  /\ UNCHANGED <<exports, session_state, sessions>>

AppNext ==
  \/ FetchPropertyDetails
  \/ GetMarketData
  \/ GetUserSearches
  \/ GetSearchById
  \/ DeleteSearch
  \/ ViewClick
  \/ DeleteClick
  \/ SearchClick

AppSpec == AppInit /\ [][AppNext]_vars

(* ------------------ two sessions of one user, step by step ------------- *)
\* the steps of a call of fetch_property_details or get_market_data, each
\* one exchange with the usage counter or with the API: the limit test, the
\* request, the increment (with the save and the return)
RaceInit ==
  /\ NoExport
  /\ result = NoCall
  /\ usage \in {MAX_QUERIES - 2, MAX_QUERIES - 1}
  /\ property_searches = <<>>
  /\ next_id = 1
  /\ session_state = {}
  /\ sessions = [s \in Sessions |-> Idle]

InCall(at, sess, fn, body) ==
  [at |-> at, calls |-> sess.calls, fn |-> fn, body |-> body]
Step(fn, step) == [fn |-> fn, status |-> step]

\* if not check_query_limit(user_id, email): return None
CheckLimit(s) ==
  /\ sessions[s].at = "idle"
  /\ sessions[s].calls < MaxCalls
  /\ \E fn \in QuotaFunctions :
       IF check_query_limit(usage)
       THEN /\ sessions' = [sessions EXCEPT ![s] = InCall("request", @, fn, None)]
            /\ result' = Step(fn, "checked")
       ELSE /\ sessions' = [sessions EXCEPT ![s] = Between(@.calls + 1)]
            /\ result' = Step(fn, "refused")
  /\ UNCHANGED <<exports, usage, property_searches, next_id, session_state>>

\* response = requests.get(...): the request is sent and answered
SendRequest(s) ==
  /\ sessions[s].at = "request"
  /\ \E answer \in Answers :
       IF answer.status = 200
       THEN /\ sessions' = [sessions EXCEPT
                              ![s] = InCall("answered", @, @.fn, answer.body)]
            /\ result' = Step(sessions[s].fn, "answered")
       ELSE /\ sessions' = [sessions EXCEPT ![s] = Between(@.calls + 1)]
            /\ result' = Step(sessions[s].fn, "failed")
  /\ UNCHANGED <<exports, usage, property_searches, next_id, session_state>>

\* increment_usage(user_id, email), the save of fetch_property_details, and
\* the return
CountQuery(s) ==
  /\ sessions[s].at = "answered"
  /\ usage' = increment_usage(usage)
  /\ \E store \in Stores :
       property_searches'
         = IF sessions[s].fn = "get_market_data" THEN property_searches
           ELSE save_property_search(store, property_searches, next_id, "A",
                                     "1 Main St", sessions[s].body,
                                     MkDict(<< <<"address", Str("1 Main St")>> >>),
                                     now).table
  /\ next_id' = next_id + Len(property_searches') - Len(property_searches)
  /\ sessions' = [sessions EXCEPT ![s] = Between(@.calls + 1)]
  /\ result' = Step(sessions[s].fn, "returned")
  /\ UNCHANGED <<exports, session_state>>

RaceNext ==
  \E s \in Sessions :
     \/ CheckLimit(s)
     \/ SendRequest(s)
     \/ CountQuery(s)

RaceSpec == RaceInit /\ [][RaceNext]_vars


(* ------------------------------ json.loads ----------------------------- *)
\* the parser the round trip is stated with: tokens back to a value
RECURSIVE ParseValue(_, _)
RECURSIVE ParseElements(_, _, _)
RECURSIVE ParseMembers(_, _, _)
ParseValue(toks, i) ==
  LET tk == toks[i]
  IN IF "str" \in DOMAIN tk THEN [v |-> Str(tk.str), next |-> i + 1]
     ELSE IF "num" \in DOMAIN tk THEN [v |-> Num(tk.num), next |-> i + 1]
     ELSE IF "lit" \in DOMAIN tk
     THEN [v |-> IF tk.lit = "null" THEN None ELSE Bool(tk.lit = "true"),
           next |-> i + 1]
     ELSE IF tk.p = "["
     THEN IF toks[i + 1] = TPunct("]") THEN [v |-> List(<<>>), next |-> i + 2]
          ELSE ParseElements(toks, i + 1, <<>>)
     ELSE IF toks[i + 1] = TPunct("}") THEN [v |-> Dict(<<>>, <<>>), next |-> i + 2]
          ELSE ParseMembers(toks, i + 1, Dict(<<>>, <<>>))
ParseElements(toks, i, acc) ==
  LET e == ParseValue(toks, i)
  IN IF toks[e.next] = TPunct(",")
     THEN ParseElements(toks, e.next + 1, Append(acc, e.v))
     ELSE [v |-> List(Append(acc, e.v)), next |-> e.next + 1]
ParseMembers(toks, i, acc) ==
  LET e == ParseValue(toks, i + 2)
      d == DictSet(acc, toks[i].str, e.v)
  IN IF toks[e.next] = TPunct(",")
     THEN ParseMembers(toks, e.next + 1, d)
     ELSE [v |-> d, next |-> e.next + 1]
JsonLoads(toks) == ParseValue(toks, 1).v

(* ------------------------------ properties ----------------------------- *)
IsCall(fn) == result.fn = fn
TabularCall == result.fn \in {"export_to_csv", "export_to_excel"}
AllGood(records) == \A i \in 1..Len(records) : records[i] \in GoodRecords
ColIndex(header, name) == CHOOSE i \in 1..Len(header) : header[i] = name

\* C1: for the empty record list the csv, excel and pdf exporters raise and
\* return neither payload nor filename, whatever metadata and id are passed;
\* export_to_json of the empty list returns the payload `[]`.
EmptyInputFails ==
  /\ (result.fn \in {"export_to_csv", "export_to_excel", "export_to_pdf_report"}
      /\ search_results = <<>>)
       => /\ result.status = "raised"
          /\ DOMAIN result = {"fn", "status", "message"}
  /\ (IsCall("export_to_json") /\ search_data = List(<<>>))
       => /\ result.status = "returned"
          /\ result.payload = <<TPunct("["), TPunct("]")>>

EmptyInputFailsWitness ==
  /\ IsCall("export_to_pdf_report")
  /\ search_results = <<>>
  /\ search_metadata.t = "dict" /\ search_metadata.ks # <<>>
  /\ search_id = Str("s1")
  /\ result.status = "raised"

\* C2: for every non-empty sequence R of property records export_to_csv
\* returns a non-empty payload and filename; the payload is one header row
\* and len(R) data rows, the k-th data row built from the k-th record.
CsvRowPerRecord ==
  (IsCall("export_to_csv") /\ search_results # <<>> /\ AllGood(search_results))
    => /\ result.status = "returned"
       /\ result.payload # <<>>
       /\ result.filename # ""
       /\ Len(result.payload) = 1 + Len(search_results)
       /\ result.payload[1][1] = "Address"
       /\ \A k \in 1..Len(search_results) :
            LET header == result.payload[1]
                row == result.payload[k + 1]
                prop == search_results[k]
            IN /\ Len(row) = Len(header)
               /\ row[1] = PyStr(DictGet(prop, "formattedAddress", Str("N/A")))
               /\ row[ColIndex(header, "Bedrooms")]
                    = PyStr(DictGet(prop, "bedrooms", Str("N/A")))

CsvRowPerRecordWitness ==
  /\ IsCall("export_to_csv")
  /\ result.status = "returned"
  /\ Len(search_results) = 2
  /\ search_results[1] = FullRecord
  /\ search_results[2] = MkDict(<<Addr1>>)
  /\ result.payload[2][1] = "2 Oak Ave"
  /\ result.payload[3][1] = "1 Main St"

\* the rows of data of a tabular payload, and the address cell of a row
DataRows == IF IsCall("export_to_csv") THEN Tail(result.payload)
            ELSE result.payload[1].rows
AddressCell(prop) ==
  IF IsCall("export_to_csv")
  THEN PyStr(DictGet(prop, "formattedAddress", Str("N/A")))
  ELSE DictGet(prop, "formattedAddress", Str("N/A"))

\* C3: a batch for export_to_csv or export_to_excel with one record that
\* cannot be normalized (an entry that is not a mapping) among well-formed
\* records does not raise: that record is dropped and every other record
\* appears in the output, in input order.
MalformedRecordSkipped ==
  LET good == SelectSeq(search_results, LAMBDA r : r \in GoodRecords)
  IN (/\ TabularCall
      /\ Len(good) >= 1
      /\ Len(good) = Len(search_results) - 1
      /\ \E i \in 1..Len(search_results) : search_results[i] \in NonMappings)
       => /\ result.status = "returned"
          /\ Len(DataRows) = Len(good)
          /\ \A k \in 1..Len(good) : DataRows[k][1] = AddressCell(good[k])

\* C4: field extraction is total: for every non-empty list of mappings,
\* whatever the types of the field values, export_to_csv and export_to_excel
\* return an artifact.
FieldExtractionTotal ==
  (/\ TabularCall
   /\ search_results # <<>>
   /\ \A i \in 1..Len(search_results) : search_results[i].t = "dict")
    => result.status = "returned"

BooleanColumns == {"Owner Occupied", "Heating", "Cooling", "Garage"}

\* C5: a record with none of the optional fields, exported by export_to_csv
\* alone or in a batch, yields a row with as many cells as the header, "No"
\* in each of the boolean columns Owner Occupied, Heating, Cooling, Garage,
\* "N/A" in every other column it lacks, and no empty cell.
BareRecordFullRow ==
  (IsCall("export_to_csv") /\ search_results # <<>> /\ AllGood(search_results))
    => /\ result.status = "returned"
       /\ \A k \in 1..Len(search_results) :
            search_results[k] \in PlainRecords =>
              LET header == result.payload[1]
                  row == result.payload[k + 1]
              IN /\ Len(row) = Len(header)
                 /\ \A b \in BooleanColumns : InSeq(b, header)
                 /\ \A c \in 1..Len(header) :
                      /\ row[c] # ""
                      /\ header[c] \in BooleanColumns => row[c] = "No"
                      /\ (header[c] \notin BooleanColumns /\ c > 1)
                           => row[c] = "N/A"

CsvHeader ==
  <<"Address", "City", "State", "ZIP Code", "Property Type", "Bedrooms",
    "Bathrooms", "Square Footage", "Lot Size", "Year Built", "Last Sale Price",
    "Last Sale Date", "Owner Occupied", "Assessor ID", "County", "Zoning",
    "Owner Names", "Owner Type", "Architecture Type", "Exterior Type",
    "Heating", "Cooling", "Garage", "Garage Spaces">>

\* C6: for every non-empty input the header row of export_to_csv is exactly
\* the 24 documented columns in order, whichever fields the records have.
CsvHeaderFixed ==
  (IsCall("export_to_csv") /\ search_results # <<>> /\ AllGood(search_results))
    => /\ result.status = "returned"
       /\ result.payload[1] = CsvHeader

\* only str, int, bool, None, lists and str-keyed dicts
RECURSIVE IsJson(_)
IsJson(v) ==
  CASE v.t \in {"str", "num", "bool", "none"} -> TRUE
    [] v.t = "list" -> \A i \in 1..Len(v.items) : IsJson(v.items[i])
    [] v.t = "dict" -> \A i \in 1..Len(v.ks) :
                          v.ks[i].t = "str" /\ IsJson(v.vs[i])
    [] OTHER -> FALSE

\* C7: for every value x built only from strings, numbers, booleans, null,
\* sequences and string-keyed mappings, parsing the payload of
\* export_to_json(x) gives x back: same nesting, keys and element order.
JsonRoundTrip ==
  (IsCall("export_to_json") /\ IsJson(search_data))
    => /\ result.status = "returned"
       /\ JsonLoads(result.payload) = search_data

JsonRoundTripWitness ==
  /\ IsCall("export_to_json")
  /\ search_data = List(<<MkDict(<< <<"b", Num(7)>>, <<"a", None>> >>)>>)
  /\ result.status = "returned"
  /\ Len(result.payload) = 11

\* x with every value json cannot represent replaced by its str()
RECURSIVE StrFallback(_)
StrFallback(v) ==
  CASE v.t = "obj" -> Str(v.repr)
    [] v.t = "list" -> List([i \in 1..Len(v.items) |-> StrFallback(v.items[i])])
    [] v.t = "dict" -> Dict(v.ks, [i \in 1..Len(v.vs) |-> StrFallback(v.vs[i])])
    [] OTHER -> v

\* every dict key, at any depth, is of a type json can write; is a str
RECURSIVE KeysWritable(_)
KeysWritable(v) ==
  CASE v.t = "list" -> \A i \in 1..Len(v.items) : KeysWritable(v.items[i])
    [] v.t = "dict" -> \A i \in 1..Len(v.ks) :
                          v.ks[i].t # "obj" /\ KeysWritable(v.vs[i])
    [] OTHER -> TRUE
RECURSIVE KeysAreStr(_)
KeysAreStr(v) ==
  CASE v.t = "list" -> \A i \in 1..Len(v.items) : KeysAreStr(v.items[i])
    [] v.t = "dict" -> \A i \in 1..Len(v.ks) :
                          v.ks[i].t = "str" /\ KeysAreStr(v.vs[i])
    [] OTHER -> TRUE

SummaryKeys == <<Str("Export Date"), Str("Total Properties"),
                 Str("Search Address"), Str("Search Date")>>
ErrorKeys == <<Str("Export Date"), Str("Error")>>
SummaryNames == {"address", "search_timestamp", "results"}
HasPropertyData == search_data.t = "dict" /\ DictHas(search_data, "property_data")

\* C9 as stated: whenever property_data is null or a string, the summary has
\* exactly the two keys Export Date and Error.
SummaryErrorOnNullOrString ==
  (/\ IsCall("get_export_summary")
   /\ HasPropertyData
   /\ DictItem(search_data, "property_data").t \in {"none", "str"})
    => result.summary.ks = ErrorKeys

\* the inputs on which a step of the derivation raises: property_data that
\* supports no `in` test, or a str or list that contains one of the names
\* looked up and cannot be indexed by it
DerivationFails ==
  /\ HasPropertyData
  /\ LET pd == DictItem(search_data, "property_data")
     IN \/ pd.t \in {"none", "num", "bool", "obj"}
        \/ pd.t = "str" /\ \E name \in SummaryNames : Substring(name, pd.s)
        \/ pd.t = "list" /\ \E name \in SummaryNames : InSeq(Str(name), pd.items)

\* C9: get_export_summary never raises, for any input: it returns a mapping
\* with the key Export Date; the mapping has exactly the two keys Export Date
\* and Error when the derivation fails (property_data null or a number, or a
\* string or list containing one of the names address, search_timestamp,
\* results) and the four summary keys otherwise (in particular for any other
\* string).
SummaryNeverFails ==
  IsCall("get_export_summary")
    => /\ result.status = "returned"
       /\ result.summary.t = "dict"
       /\ DictHas(result.summary, "Export Date")
       /\ result.summary.ks = IF DerivationFails THEN ErrorKeys ELSE SummaryKeys

SummaryNeverFailsWitness ==
  /\ IsCall("get_export_summary")
  /\ HasPropertyData
  /\ DictItem(search_data, "property_data") = Str("my address")
  /\ result.summary.ks = ErrorKeys

\* len(d.results) when d.results is a list, else 0
ResultCount(d) ==
  IF DictHas(d, "results") /\ DictItem(d, "results").t = "list"
  THEN Num(Len(DictItem(d, "results").items))
  ELSE Num(0)

\* C10: for {property_data: P} the summary has Search Address = P.address,
\* Search Date = P.search_timestamp ("N/A" if absent) and Total Properties =
\* len(P.results) when that is a list (else 0); for a flat {results: [...]}
\* without property_data it has Total Properties = len(results) and "N/A"
\* for both; in both cases exactly the four summary keys.
SummaryReadsBothShapes ==
  (IsCall("get_export_summary") /\ search_data.t = "dict")
    => LET summary == result.summary
           pd == DictItem(search_data, "property_data")
       IN /\ (HasPropertyData /\ pd.t = "dict")
               => /\ summary.ks = SummaryKeys
                  /\ DictItem(summary, "Search Address")
                       = DictGet(pd, "address", Str("N/A"))
                  /\ DictItem(summary, "Search Date")
                       = DictGet(pd, "search_timestamp", Str("N/A"))
                  /\ DictItem(summary, "Total Properties") = ResultCount(pd)
          /\ (~HasPropertyData)
               => /\ summary.ks = SummaryKeys
                  /\ DictItem(summary, "Search Address") = Str("N/A")
                  /\ DictItem(summary, "Search Date") = Str("N/A")
                  /\ DictItem(summary, "Total Properties") = ResultCount(search_data)

SummaryReadsBothShapesWitness ==
  /\ IsCall("get_export_summary")
  /\ HasPropertyData
  /\ DictItem(search_data, "property_data").t = "dict"
  /\ DictItem(result.summary, "Search Address") = Str("1 Main St")
  /\ DictItem(result.summary, "Search Date") = Str("N/A")
  /\ DictItem(result.summary, "Total Properties") = Num(2)

\* a workbook asked for well-formed records, with a mapping or nothing as
\* metadata
WorkbookCall ==
  /\ IsCall("export_to_excel")
  /\ search_results # <<>>
  /\ AllGood(search_results)
  /\ search_metadata.t \in {"none", "dict"}

HasSheet(name) ==
  \E s \in 1..Len(result.payload) : result.payload[s].name = name
SheetNamed(name) ==
  result.payload[CHOOSE s \in 1..Len(result.payload) :
                   result.payload[s].name = name]

\* the record has a non-empty mapping under key
HasMapping(prop, key) ==
  /\ DictHas(prop, key)
  /\ DictItem(prop, key).t = "dict"
  /\ DictItem(prop, key).ks # <<>>

\* C11: for every non-empty list of records the workbook of export_to_excel
\* has the sheet Tax Assessments iff some record has a non-empty
\* taxAssessments mapping, and the sheet Property Taxes iff some record has a
\* non-empty propertyTaxes mapping, whatever the other sheet and the metadata.
TaxSheetsIffData ==
  WorkbookCall
    => /\ result.status = "returned"
       /\ HasSheet("Tax Assessments")
            <=> \E i \in 1..Len(search_results) :
                  HasMapping(search_results[i], "taxAssessments")
       /\ HasSheet("Property Taxes")
            <=> \E i \in 1..Len(search_results) :
                  HasMapping(search_results[i], "propertyTaxes")

TaxSheetsIffDataWitness ==
  /\ WorkbookCall
  /\ search_metadata.t = "dict" /\ search_metadata.ks # <<>>
  /\ result.status = "returned"
  /\ HasSheet("Property Taxes")
  /\ ~HasSheet("Tax Assessments")
  /\ HasSheet("Search Info")

RECURSIVE Flatten(_)
Flatten(seqs) == IF seqs = <<>> THEN <<>> ELSE seqs[1] \o Flatten(Tail(seqs))

\* the (position, year) pairs of the input under key: records in input
\* order, the years of a record in the order of its mapping
YearPairs(key) ==
  Flatten([i \in 1..Len(search_results) |->
             IF HasMapping(search_results[i], key)
             THEN LET years == DictItem(search_results[i], key).ks
                  IN [j \in 1..Len(years) |-> <<i, years[j]>>]
             ELSE <<>>])

TaxSheets == {<<"Tax Assessments", "taxAssessments">>,
              <<"Property Taxes", "propertyTaxes">>}

\* C12: the Tax Assessments sheet has exactly one row per (record, year) pair
\* of the taxAssessments mappings and the Property Taxes sheet one per pair
\* of propertyTaxes; the rows are grouped by record in input order, and
\* Property Index is the 1-based position of the record in the input,
\* records without tax data counted.
TaxRowPerYear ==
  WorkbookCall
    => /\ result.status = "returned"
       /\ \A sh \in TaxSheets :
            LET pairs == YearPairs(sh[2])
            IN pairs # <<>>
                 => LET sheet == SheetNamed(sh[1])
                    IN /\ SubSeq(sheet.header, 1, 3)
                            = <<"Property Index", "Address", "Year">>
                       /\ Len(sheet.rows) = Len(pairs)
                       /\ \A k \in 1..Len(pairs) :
                            /\ sheet.rows[k][1] = Num(pairs[k][1])
                            /\ sheet.rows[k][2]
                                 = DictGet(search_results[pairs[k][1]],
                                           "formattedAddress", Str("N/A"))
                            /\ sheet.rows[k][3] = pairs[k][2]

TaxRowPerYearWitness ==
  /\ WorkbookCall
  /\ result.status = "returned"
  /\ Len(search_results) = 2
  /\ ~HasMapping(search_results[1], "taxAssessments")
  /\ HasSheet("Tax Assessments")
  /\ Len(SheetNamed("Tax Assessments").rows) = 2
  /\ SheetNamed("Tax Assessments").rows[1][1] = Num(2)
  /\ SheetNamed("Tax Assessments").rows[1][3] = Str("2022")
  /\ SheetNamed("Tax Assessments").rows[2][3] = Str("2023")

\* the columns of the tabular export without the six feature columns
BaseColumns == SubSeq(CsvHeader, 1, 18)

\* C13: for every non-empty list of records the workbook of export_to_excel
\* has a Properties sheet with one row per record, in input order, and
\* exactly the 18 columns of the tabular export before the feature columns
\* (Address ... Owner Occupied, Assessor ID, County, Zoning, Owner Names,
\* Owner Type).
PropertiesSheetColumns ==
  WorkbookCall
    => /\ result.status = "returned"
       /\ HasSheet("Properties")
       /\ LET sheet == SheetNamed("Properties")
          IN /\ Len(sheet.rows) = Len(search_results)
             /\ \A k \in 1..Len(search_results) :
                  sheet.rows[k][1] = AddressCell(search_results[k])
             /\ sheet.header = BaseColumns

\* the Field/Value rows the Search Info sheet is to have
InfoRows ==
  [j \in 1..Len(search_metadata.ks) |->
     <<search_metadata.ks[j], Str(PyStr(search_metadata.vs[j]))>>]

\* C14 as stated: the workbook has a Search Info sheet exactly when a
\* metadata mapping was supplied, with one Field/Value row per pair.
SearchInfoIffSupplied ==
  WorkbookCall
    => /\ result.status = "returned"
       /\ HasSheet("Search Info") <=> search_metadata.t = "dict"

\* C14: the workbook has a Search Info sheet exactly when the metadata
\* supplied is a non-empty mapping (none for no metadata and for an empty
\* mapping); the sheet has the columns Field and Value and exactly one row
\* per key/value pair, in the mapping's order, Value being str(value).
SearchInfoIffNonEmpty ==
  WorkbookCall
    => /\ result.status = "returned"
       /\ HasSheet("Search Info")
            <=> (search_metadata.t = "dict" /\ search_metadata.ks # <<>>)
       /\ HasSheet("Search Info")
            => /\ SheetNamed("Search Info").header = <<"Field", "Value">>
               /\ SheetNamed("Search Info").rows = InfoRows

SearchInfoIffNonEmptyWitness ==
  /\ WorkbookCall
  /\ result.status = "returned"
  /\ HasSheet("Search Info")
  /\ SheetNamed("Search Info").rows
       = << <<Str("export_type"), Str("bulk_download")>>,
            <<Str("total_searches"), Str("2")>>,
            <<Str("results"), Str("[]")>> >>

Exporters == {"export_to_json", "export_to_csv", "export_to_excel",
              "export_to_pdf_report"}

\* an export that returned an artifact
Exported == result.fn \in Exporters /\ result.status = "returned"

\* another call of an exporter, on an input it accepts
CallOf(fn, id, clock) ==
  CASE fn = "export_to_json" -> export_to_json(List(<<>>), id, clock)
    [] fn = "export_to_csv" -> export_to_csv(<<MkDict(<<>>)>>, id, clock)
    [] fn = "export_to_excel" -> export_to_excel(<<MkDict(<<>>)>>, None, id, clock)
    [] fn = "export_to_pdf_report"
         -> export_to_pdf_report(<<MkDict(<<>>)>>, None, id, clock)

\* search identifiers as the persistence layer supplies them: a string, or
\* none
StringIds == {id \in SearchIds : id.t \in {"none", "str"}}

\* C15: the filename an export returns differs from the filename of any
\* other export call that differs from it in the search identifier (none
\* supplied included), in the format or in the clock second.
FilenamesUnique ==
  [][(result = NoCall /\ Exported' /\ search_id \in StringIds)
       => \A fn \in Exporters, id \in StringIds, clock \in 0..MaxClock :
            <<fn, id, clock>> # <<result'.fn, search_id, now>>
              => CallOf(fn, id, clock).filename # result'.filename]_vars

\* the fixed parts of the name an exporter gives its artifact
Stem(fn) == IF fn = "export_to_pdf_report" THEN "property_report"
            ELSE "property_search"
Extension(fn) ==
  CASE fn = "export_to_json" -> ".json"
    [] fn = "export_to_csv" -> ".csv"
    [] fn = "export_to_excel" -> ".xlsx"
    [] fn = "export_to_pdf_report" -> ".pdf"

\* the name with idtext in the place of the identifier, for a call at clock
Pattern(fn, idtext, clock) ==
  Stem(fn) \o "_" \o idtext \o "_" \o Timestamp(clock) \o Extension(fn)

ResultSetsNeverModified ==
  [][/\ search_data' = search_data
     /\ search_results' = search_results
     /\ search_metadata' = search_metadata
     /\ searches' = searches]_vars

\* column name, key in `features`: the feature columns of the tabular export
FeatureFields ==
  << <<"Architecture Type", "architectureType">>,
     <<"Exterior Type", "exteriorType">>, <<"Heating", "heating">>,
     <<"Cooling", "cooling">>, <<"Garage", "garage">>,
     <<"Garage Spaces", "garageSpaces">> >>

KeyOf(fields, col) ==
  fields[CHOOSE i \in 1..Len(fields) : fields[i][1] = col][2]
ColumnsOf(fields) == {fields[i][1] : i \in 1..Len(fields)}

\* the value a record has for a column: null when it has none
FieldOf(prop, col) ==
  IF col \in ColumnsOf(CsvFields) THEN DictGet(prop, KeyOf(CsvFields, col), None)
  ELSE LET features == DictGet(prop, "features", None)
       IN IF features.t = "dict"
          THEN DictGet(features, KeyOf(FeatureFields, col), None)
          ELSE None

\* the cell the record is to have in a column
ExpectedCell(prop, col) ==
  IF col \in BooleanColumns
  THEN Str(IF Truthy(FieldOf(prop, col)) THEN "Yes" ELSE "No")
  ELSE IF FieldOf(prop, col) = None THEN Str("N/A")
  ELSE FieldOf(prop, col)

\* a csv export asked for well-formed records
CsvCall ==
  /\ IsCall("export_to_csv")
  /\ search_results # <<>>
  /\ AllGood(search_results)

\* header and data rows of the tabular payload: the csv text, or the
\* Properties sheet
TableHeader == IF IsCall("export_to_csv") THEN result.payload[1]
               ELSE result.payload[1].header
CellAs(v) == IF IsCall("export_to_csv") THEN PyStr(v) ELSE v

\* C18: in every row of export_to_csv and of the Properties sheet each
\* scalar column holds the record's value when the field has one and "N/A"
\* when it is missing (key absent or value null), and Owner Occupied,
\* Heating, Cooling and Garage hold "Yes" when the value is truthy and "No"
\* otherwise.
ScalarDefaults ==
  (CsvCall \/ WorkbookCall)
    => /\ result.status = "returned"
       /\ \A k \in 1..Len(search_results), c \in 1..Len(TableHeader) :
            TableHeader[c] \in ColumnsOf(CsvFields) \cup ColumnsOf(FeatureFields)
              => DataRows[k][c]
                   = CellAs(ExpectedCell(search_results[k], TableHeader[c]))

\* the names of a record's owner, in order: none when there is no owner, no
\* names or an empty list of names
OwnerNames(prop) ==
  LET owner == DictGet(prop, "owner", None)
      names == IF owner.t = "dict" THEN DictGet(owner, "names", None) ELSE None
  IN IF names.t = "list" THEN [i \in 1..Len(names.items) |-> names.items[i].s]
     ELSE <<>>

RECURSIVE CommaSeparated(_)
CommaSeparated(names) ==
  IF Len(names) = 1 THEN names[1]
  ELSE names[1] \o ", " \o CommaSeparated(Tail(names))

\* C19: in export_to_csv the Owner Names cell of a record is its owner.names
\* joined by ", " in their order when there is at least one name, and "N/A"
\* when owner is absent or empty or names is absent or empty; the Owner Type
\* cell is owner.type when the owner has one, and "N/A" otherwise.
OwnerColumns ==
  CsvCall
    => /\ result.status = "returned"
       /\ \A k \in 1..Len(search_results) :
            LET header == result.payload[1]
                row == result.payload[k + 1]
                prop == search_results[k]
                owner == DictGet(prop, "owner", None)
            IN /\ row[ColIndex(header, "Owner Names")]
                    = IF OwnerNames(prop) = <<>> THEN "N/A"
                      ELSE CommaSeparated(OwnerNames(prop))
               /\ row[ColIndex(header, "Owner Type")]
                    = IF owner.t = "dict" /\ DictHas(owner, "type")
                      THEN DictItem(owner, "type").s
                      ELSE "N/A"

OwnerColumnsWitness ==
  /\ CsvCall
  /\ result.status = "returned"
  /\ Len(search_results) = 2
  /\ OwnerNames(search_results[1]) = <<"Ann", "Bob">>
  /\ DictGet(search_results[2], "owner", None) = MkDict(<<>>)
  /\ result.payload[2][ColIndex(result.payload[1], "Owner Names")] = "Ann, Bob"
  /\ result.payload[2][ColIndex(result.payload[1], "Owner Type")] = "Individual"
  /\ result.payload[3][ColIndex(result.payload[1], "Owner Names")] = "N/A"
  /\ result.payload[3][ColIndex(result.payload[1], "Owner Type")] = "N/A"

\* a report asked for well-formed records, with a mapping or nothing as
\* metadata
ReportCall ==
  /\ IsCall("export_to_pdf_report")
  /\ search_results # <<>>
  /\ AllGood(search_results)
  /\ search_metadata.t \in {"none", "dict"}

\* the record's square footage and sale price can be written with thousands
\* separators
Printable(prop) ==
  \A key \in {"squareFootage", "lastSalePrice"} :
     LET v == DictGet(prop, key, None)
     IN Truthy(v) => v.t \in {"num", "bool"}

\* the position of the property count in the report, the flowables before
\* it (after the title) and after it
CountAt ==
  CHOOSE k \in 1..Len(result.payload) :
    result.payload[k]
      = Paragraph("Properties Found: " \o ToString(Len(search_results)),
                  "CustomHeading")
IsTable(f) == f.flow = "Table"
ReportHead == SubSeq(result.payload, 2, CountAt - 1)
ReportBody == SubSeq(result.payload, CountAt + 1, Len(result.payload))

\* the metadata pairs with a key other than `results`
KeptPairs ==
  IF search_metadata.t # "dict" THEN <<>>
  ELSE SelectSeq([j \in 1..Len(search_metadata.ks) |->
                    <<search_metadata.ks[j], search_metadata.vs[j]>>],
                 LAMBDA kv : kv[1] # Str("results"))

\* C20: the metadata table of the report has one row for every metadata key
\* except `results`, which has none; without metadata, with empty metadata
\* and with metadata holding only `results` the report has no metadata
\* table; in every case it has the property count and a section for every
\* property.
MetadataTableSkipsResults ==
  ReportCall
    => /\ result.status = "returned"
         <=> \A i \in 1..Len(search_results) : Printable(search_results[i])
       /\ result.status = "returned"
            => /\ \E k \in 1..Len(result.payload) : k = CountAt
               /\ LET tables == SelectSeq(ReportHead, IsTable)
                  IN IF KeptPairs = <<>> THEN tables = <<>>
                     ELSE /\ Len(tables) = 1
                          /\ Len(tables[1].data) = Len(KeptPairs)
                          /\ \A j \in 1..Len(KeptPairs) :
                               tables[1].data[j][2] = Str(PyStr(KeptPairs[j][2]))
               /\ Len(SelectSeq(ReportBody, IsTable)) = Len(search_results)
               /\ \A i \in 1..Len(search_results) :
                    \E k \in 1..Len(ReportBody) :
                      ReportBody[k] = Paragraph("Property " \o ToString(i),
                                                "CustomHeading")

MetadataTableSkipsResultsWitness ==
  /\ ReportCall
  /\ result.status = "returned"
  /\ search_metadata.t = "dict"
  /\ Len(search_metadata.ks) = 3
  /\ DictHas(search_metadata, "results")
  /\ SelectSeq(ReportHead, IsTable)
       = <<Table(<< <<"Export Type", Str("bulk_download")>>,
                    <<"Total Searches", Str("2")>> >>)>>
  /\ Len(SelectSeq(ReportBody, IsTable)) = 1

\* the paragraphs of the report that state a property count
IsCount(f) ==
  /\ f.flow = "Paragraph"
  /\ Len(f.text) >= 18
  /\ SubSeq(f.text, 1, 18) = "Properties Found: "
NotSpacer(f) == f.flow # "Spacer"
SectionLabels ==
  <<"Address", "Property Type", "Bedrooms", "Bathrooms", "Square Footage",
    "Year Built", "Last Sale Price", "Owner Occupied">>
\* the report was produced
ReportReturned == IsCall("export_to_pdf_report") /\ result.status = "returned"
\* the property sections of the report without their spacing: heading and
\* table of property 1, heading and table of property 2, ...
Sections == SelectSeq(ReportBody, NotSpacer)

\* C21: the report of a non-empty list of n records states the count n
\* once and then has exactly n property sections, headed Property 1 ...
\* Property n in input order, each with a table of the 8 rows Address,
\* Property Type, Bedrooms, Bathrooms, Square Footage, Year Built, Last Sale
\* Price, Owner Occupied, in this order.
SectionPerProperty ==
  ReportReturned
    => LET n == Len(search_results)
           counts == SelectSeq(result.payload, IsCount)
       IN /\ n > 0
          /\ counts = <<Paragraph("Properties Found: " \o ToString(n),
                                  "CustomHeading")>>
          /\ Len(Sections) = 2 * n
          /\ \A i \in 1..n :
               /\ Sections[2 * i - 1]
                    = Paragraph("Property " \o ToString(i), "CustomHeading")
               /\ Sections[2 * i].flow = "Table"
               /\ [j \in 1..Len(Sections[2 * i].data) |->
                     Sections[2 * i].data[j][1]] = SectionLabels
               /\ Sections[2 * i].data[1][2]
                    = DictGet(search_results[i], "formattedAddress", Str("N/A"))

SectionPerPropertyWitness ==
  /\ ReportReturned
  /\ Len(search_results) = 2
  /\ search_results[1] # search_results[2]
  /\ Len(Sections) = 4
  /\ Sections[2].data[1][2] = Str("1 Main St")
  /\ Sections[4].data[1][2] = Str("2 Oak Ave")
  /\ Sections[4].data[5][2] = Str("1,500")

\* the number a square footage or sale price holds: an int, or the int a
\* numeric string spells; nothing for null and absent
Digits == "0123456789"
IsNumeric(str) ==
  /\ str # ""
  /\ \A i \in 1..Len(str) : Substring(SubSeq(str, i, i), Digits)
RECURSIVE ParseInt(_)
ParseInt(str) ==
  IF str = "" THEN 0
  ELSE 10 * ParseInt(SubSeq(str, 1, Len(str) - 1))
       + (CHOOSE d \in 0..9 : ToString(d) = SubSeq(str, Len(str), Len(str)))
HoldsNumber(v) == v.t = "num" \/ (v.t = "str" /\ IsNumeric(v.s))
NumberOf(v) == IF v.t = "num" THEN v.n ELSE ParseInt(v.s)
\* the renderings allowed for a field value: the number with thousands
\* separators after the prefix when the record has one, "N/A" when it has
\* none, either of them for 0
Renderings(v, prefix) ==
  IF ~HoldsNumber(v) THEN {Str("N/A")}
  ELSE IF NumberOf(v) = 0 THEN {Str("N/A"), Str(prefix \o "0")}
  ELSE {Str(prefix \o Thousands(NumberOf(v)))}

\* C22: in each property section Square Footage is the thousands-separated
\* number when the record has a square footage and "N/A" otherwise, and Last
\* Sale Price is "$" and the thousands-separated number when the record has
\* a last sale price and "N/A" otherwise; for a number, a numeric string, 0,
\* null and an absent field one of the two renderings is produced and the
\* export does not fail.
SizeAndPriceRendered ==
  ReportCall
    => /\ result.status = "returned"
       /\ \A i \in 1..Len(search_results) :
            /\ Sections[2 * i].data[5][2]
                 \in Renderings(DictGet(search_results[i], "squareFootage", None),
                                "")
            /\ Sections[2 * i].data[7][2]
                 \in Renderings(DictGet(search_results[i], "lastSalePrice", None),
                                "$")

\* the positions in the report body of the headings and of the larger breaks
IsHeading(f) == f.flow = "Paragraph"
HeadingAt(i) ==
  CHOOSE k \in 1..Len(ReportBody) :
    ReportBody[k] = Paragraph("Property " \o ToString(i), "CustomHeading")
\* the flowables of section i: from its heading to the next heading or the end
SectionEnd(i) == IF i = Len(search_results) THEN Len(ReportBody)
                 ELSE HeadingAt(i + 1) - 1
SectionOf(i) == SubSeq(ReportBody, HeadingAt(i), SectionEnd(i))
IsBreak(f) == f = Spacer(50)

\* C23: in the report of n records a larger vertical break follows property
\* section i exactly when i is even and i < n: none after an odd section,
\* none after the last section; the report has floor((n-1)/2) such breaks.
BreakAfterEverySecond ==
  ReportReturned
    => LET n == Len(search_results)
       IN /\ \A i \in 1..n :
               LET section == SectionOf(i)
               IN /\ Len(SelectSeq(section, IsBreak))
                       = IF i % 2 = 0 /\ i < n THEN 1 ELSE 0
                  /\ (i % 2 = 0 /\ i < n) => section[Len(section)] = Spacer(50)
          /\ Len(SelectSeq(result.payload, IsBreak)) = (n - 1) \div 2

BreakAfterEverySecondWitness ==
  /\ ReportReturned
  /\ Len(search_results) = 5
  /\ Len(SelectSeq(result.payload, IsBreak)) = 2
  /\ IsBreak(ReportBody[HeadingAt(3) - 1])
  /\ IsBreak(ReportBody[HeadingAt(5) - 1])
  /\ ~IsBreak(ReportBody[HeadingAt(2) - 1])
  /\ ~IsBreak(ReportBody[Len(ReportBody)])

\* the error of an exporter handed an empty list
EmptyInputErrors ==
  {"CSV export failed: No search results to export",
   "Excel export failed: No search results to export",
   "PDF export failed: No search results to export"}
IsEmptyInputError(call) ==
  call.status = "raised" /\ call.message \in EmptyInputErrors
\* the exporter calls a run of the Downloads page made
PageCalls ==
  IF result.fn = "individual_download" /\ result.status = "returned"
  THEN {result.csv, result.excel, result.pdf}
  ELSE IF result.fn = "bulk_download" /\ result.status = "returned"
  THEN {result.csv, result.excel}
  ELSE {}

\* C30: the Downloads page never calls export_to_csv, export_to_excel or
\* export_to_pdf_report with an empty record list: the individual exports
\* are made only for a selected search with at least one result, the bulk
\* exports only for a non-empty combined list, so no stored search data
\* makes the page hit the empty-input error of the exporters.
PageNeverExportsEmpty ==
  \A call \in PageCalls : ~IsEmptyInputError(call)

\* the bulk tab found searches in the date range, none of them with a
\* result, and exported nothing
PageNeverExportsEmptyWitness ==
  /\ result = NothingToDownload("bulk_download")
  /\ \E i \in 1..Len(searches) :
       /\ InDateRange(searches[i], 0 - 30, 0)
       /\ get_property_results(DictGet(searches[i], "property_data",
                                       Dict(<<>>, <<>>))) = List(<<>>)

(* --------------------- properties of the application ------------------- *)
\* C24: a call of fetch_property_details or get_market_data by a user whose
\* usage is at or above MAX_QUERIES sends no request, saves nothing, returns
\* None and leaves usage as it is; otherwise usage grows by exactly one when
\* the API answers 200 and stays as it is on any other status and on a
\* network error, which return None; so usage never exceeds MAX_QUERIES in
\* a sequential run.
QuotaAccounting ==
  /\ usage <= MAX_QUERIES
  /\ [][result'.fn \in QuotaFunctions
          => /\ usage >= MAX_QUERIES
                  => /\ result'.requests = 0
                     /\ result'.value = None
                     /\ usage' = usage
                     /\ property_searches' = property_searches
             /\ usage < MAX_QUERIES
                  => /\ result'.requests = 1
                     /\ result'.answer = 200 => usage' = usage + 1
                     /\ result'.answer # 200
                          => /\ usage' = usage
                             /\ result'.value = None
                             /\ property_searches' = property_searches
             /\ usage' <= MAX_QUERIES]_vars

\* the user was two queries short of the limit, a search was answered and
\* saved, and a later call is refused at the limit
QuotaAccountingWitness ==
  /\ result.fn \in QuotaFunctions
  /\ result.requests = 0
  /\ result.value = None
  /\ usage = MAX_QUERIES
  /\ Len(property_searches) > 1

\* the rows of a user in a table
RowsOf(table, user_id) == SelectSeq(table, LAMBDA row : OwnerOf(row) = user_id)

\* C25: delete_search(search_id, user_id) removes at most the row with this
\* id that is the caller's, and get_search_by_id(search_id, user_id) returns
\* a row only if the row is the caller's, None otherwise; whatever user A
\* saves, gets and deletes, the rows of user B stay as they are and none of
\* them is returned to A.
UserVerification ==
  [][/\ RowsOf(property_searches', "B") = RowsOf(property_searches, "B")
     /\ result'.fn = "delete_search"
          => /\ \A i \in 1..Len(property_searches') :
                  InSeq(property_searches'[i], property_searches)
             /\ \A i \in 1..Len(property_searches) :
                  \/ InSeq(property_searches[i], property_searches')
                  \/ Matches(property_searches[i], result'.search, "A")
     /\ result'.fn = "get_search_by_id"
          => \/ result'.value = None
             \/ /\ InSeq(result'.value, property_searches)
                /\ Matches(result'.value, result'.search, "A")
     /\ result'.fn = "get_user_searches"
          => \A i \in 1..Len(result'.value.items) :
                /\ InSeq(result'.value.items[i], property_searches)
                /\ OwnerOf(result'.value.items[i]) = "A"]_vars

\* A has a search of its own, asked for the search of B by its id and got
\* None
UserVerificationWitness ==
  /\ result.fn = "get_search_by_id"
  /\ result.search = RowId(RowOfB)
  /\ result.value = None
  /\ InSeq(RowOfB, property_searches)
  /\ RowsOf(property_searches, "A") # <<>>

ConfirmKeys == {ConfirmKey(search) : search \in RowIds}

\* C26: on the Saved Searches page a click on Delete of search s calls
\* delete_search(s) only if the confirm flag of s is already set in the
\* session, which only an earlier click on Delete of s sets; the first click
\* only sets the flag and deletes nothing, and a click on View or on the
\* Delete of another search never deletes s.
DeleteNeedsConfirm ==
  [][/\ result'.fn = "delete_click"
          => /\ result'.value = Bool(ConfirmKey(result'.search) \in session_state)
             /\ ConfirmKey(result'.search) \notin session_state
                  => /\ property_searches' = property_searches
                     /\ session_state'
                          = session_state \cup {ConfirmKey(result'.search)}
             /\ \A i \in 1..Len(property_searches) :
                  RowId(property_searches[i]) # result'.search
                    => InSeq(property_searches[i], property_searches')
     /\ result'.fn = "view_click"
          => /\ property_searches' = property_searches
             /\ session_state' \cap ConfirmKeys = session_state \cap ConfirmKeys
     /\ \A search \in RowIds :
          (ConfirmKey(search) \in session_state'
             /\ ConfirmKey(search) \notin session_state)
            => result'.fn = "delete_click" /\ result'.search = search]_vars

\* a second click on Delete has deleted a search while another search of
\* the user, never clicked, is still stored
DeleteNeedsConfirmWitness ==
  /\ result.fn = "delete_click"
  /\ result.value = Bool(TRUE)
  /\ ConfirmKey(result.search) \in session_state
  /\ \A i \in 1..Len(property_searches) :
       RowId(property_searches[i]) # result.search
  /\ \E i \in 1..Len(property_searches) :
       /\ OwnerOf(property_searches[i]) = "A"
       /\ ConfirmKey(RowId(property_searches[i])) \notin session_state

\* C28: one successful search on the Property Search page (API status 200,
\* a property found, datastore available) adds exactly one row to
\* property_searches for the user; a search that fails or finds no property
\* adds none.
OneRowPerSearch ==
  [][result'.fn = "search_click"
       => LET added == Len(RowsOf(property_searches', "A"))
                       - Len(RowsOf(property_searches, "A"))
          IN /\ (result'.found /\ result'.stores = <<"up", "up">>) => added = 1
             /\ ~result'.found => added = 0]_vars

SavedKeys ==
  <<Str("address"), Str("results"), Str("search_params"),
    Str("search_timestamp")>>
\* the number of properties the pages count for a stored search
PropertyCount(data) ==
  IF get_property_results(data).t = "list"
  THEN Len(get_property_results(data).items) ELSE 0

\* C29: every row the application inserts into property_searches has a
\* property_data of the one shape {address, results, search_params,
\* search_timestamp} with `results` the property list, the shape the Saved
\* Searches and Downloads pages read: every saved search shows its address
\* and a non-zero property count there and can be exported.
SavedShape ==
  \A i \in 1..Len(property_searches) :
     OwnerOf(property_searches[i]) = "A"
       => LET data == DictItem(property_searches[i], "property_data")
          IN /\ data.t = "dict"
             /\ data.ks = SavedKeys
             /\ get_search_address(data) # UnknownAddress
             /\ PropertyCount(data) > 0
             /\ DictGet(get_export_summary(property_searches[i], now),
                        "Total Properties", Num(0)) # Num(0)

\* a request is being sent by some session in this step
Sending ==
  \E s \in Sessions : sessions[s].at = "request" /\ sessions'[s].at # "request"

\* C27: when two sessions of the same user run fetch_property_details and
\* get_market_data concurrently, each call reading usage, comparing it with
\* MAX_QUERIES, sending the request and incrementing usage, usage never
\* exceeds MAX_QUERIES and no request is sent once MAX_QUERIES queries have
\* been counted, in every interleaving of the steps.
LimitUnderRace ==
  /\ usage <= MAX_QUERIES
  /\ [][/\ usage' <= MAX_QUERIES
        /\ Sending => usage < MAX_QUERIES]_vars

====
